---- MODULE Spec2Model ----
(***************************************************************************)
(* A model of builtin-apply.c: the hunk locator/applier                    *)
(* (apply_one_fragment, find_pos, match_fragment, update_image) at the     *)
(* level of bytes and line tables, and the run of cmd_apply over a list of *)
(* patches (check_patch_list, write_out_results) at the level of paths,    *)
(* the working tree and the index.                                         *)
(***************************************************************************)
EXTENDS Integers, Sequences, FiniteSets, TLC

VARIABLES
    glob,       \* the module-level option and counter globals (lines 28-68)
    img,        \* struct image of the file being patched (apply_fragments)
    frags,      \* the fragment chain of the patch being applied
    fi,         \* index in frags of the fragment apply_fragments is at
    pc,         \* position inside apply_fragments / apply_one_fragment
    st,         \* the locals of apply_one_fragment
    hist,       \* what the calls so far did: origin of the input, warnings
    run         \* the state of one cmd_apply run (patch list, tree, index)

vars == <<glob, img, frags, fi, pc, st, hist, run>>

(***************************************************************************)
(* Bytes.  A byte is a one-character string; a buffer is a sequence of     *)
(* bytes.  Offsets are 0-based as in the C code.                           *)
(***************************************************************************)
NL == "\n"
SP == " "
NUL == "\\0"
BSL == "\\"

Ord(c) ==
    CASE c = "a" -> 97 [] c = "b" -> 98 [] c = "c" -> 99 [] c = "d" -> 100
      [] c = "e" -> 101 [] c = "f" -> 102 [] c = "x" -> 120
      [] c = SP -> 32 [] c = NL -> 10 [] c = "+" -> 43 [] c = "-" -> 45
      [] c = "@" -> 64 [] c = BSL -> 92 [] OTHER -> 0

isspace(c) == c \in {SP, NL, "\t", "\r"}

\* the bytes buf[off .. off+n) ; a read past the end yields the NUL that
\* the buffers are terminated with
Sub(buf, off, n) ==
    [i \in 1..n |-> IF off + i <= Len(buf) THEN buf[off + i] ELSE NUL]

Drop(buf, n) == SubSeq(buf, n + 1, Len(buf))

RECURSIVE Concat(_)
Concat(ss) == IF ss = <<>> THEN <<>> ELSE Head(ss) \o Concat(Tail(ss))

\* unsigned hash : 24
HashMod == 16777216
\* unsigned long arithmetic of leading / trailing, narrowed to what TLC's
\* integers hold; UINT_MAX < ULONG_MAX as on LP64
UINT_MAX == 65535
ULongMod == 1048576

RECURSIVE hash_from(_, _, _)
hash_from(cp, i, h) ==
    IF i > Len(cp) THEN h
    ELSE hash_from(cp, i + 1,
                   IF isspace(cp[i]) THEN h ELSE (h * 3 + Ord(cp[i])) % HashMod)

hash_line(cp) == hash_from(cp, 1, 0)

RECURSIVE linelen_from(_, _, _)
linelen_from(buffer, off, len) ==
    IF off + len >= Len(buffer) THEN len
    ELSE IF buffer[off + len + 1] = NL THEN len + 1
    ELSE linelen_from(buffer, off, len + 1)

\* linelen(buffer + off, size) with size = Len(buffer) - off
linelen(buffer, off) == linelen_from(buffer, off, 0)

(***************************************************************************)
(* struct line and struct image.  buf holds the bytes the C pointer points *)
(* at (possibly more than len of them), len is the len field, line is the  *)
(* line table line[0 .. nr).  wrapped records that nr was decremented at 0 *)
(* (remove_first_line / remove_last_line on an image without lines): nr is *)
(* then a huge size_t and buf, len are indeterminate.                      *)
(***************************************************************************)
LINE_COMMON == 1

EmptyImage == [buf |-> <<>>, len |-> 0, line |-> <<>>, wrapped |-> FALSE]

add_line_info(image, bol, len, flag) ==
    [image EXCEPT !.line =
        Append(@, [len |-> len, hash |-> hash_line(Sub(bol, 0, len)), flag |-> flag])]

RECURSIVE prepare_lines(_, _, _)
prepare_lines(image, cp, ep) ==
    IF cp >= ep THEN image
    ELSE LET rest == Sub(image.buf, cp, ep - cp)
             n == linelen(rest, 0)
         IN prepare_lines(add_line_info(image, Sub(rest, 0, n), n, 0), cp + n, ep)

prepare_image(buf, len, prepare_linetable) ==
    LET image == [EmptyImage EXCEPT !.buf = buf, !.len = len]
    IN IF prepare_linetable THEN prepare_lines(image, 0, len) ELSE image

RECURSIVE SumLen(_, _)
\* sum of line[0 .. n).len
SumLen(line, n) == IF n <= 0 THEN 0 ELSE line[n].len + SumLen(line, n - 1)

nr(image) == Len(image.line)

(***************************************************************************)
(* The whitespace rule engine (ws.c) is not part of the sources at hand;   *)
(* it is modelled from its contract: ws_check reports trailing whitespace, *)
(* ws_fix_copy strips it and keeps the line terminator, so the result is   *)
(* never longer than the input.                                            *)
(***************************************************************************)
RECURSIVE strip_trailing(_)
strip_trailing(s) ==
    IF s # <<>> /\ isspace(s[Len(s)]) THEN strip_trailing(SubSeq(s, 1, Len(s) - 1))
    ELSE s

ws_fix_copy(src) ==
    IF src # <<>> /\ src[Len(src)] = NL
    THEN Append(strip_trailing(SubSeq(src, 1, Len(src) - 1)), NL)
    ELSE strip_trailing(src)

ws_check(src) == IF ws_fix_copy(src) # src THEN 1 ELSE 0

(***************************************************************************)
(* enum ws_error_action                                                    *)
(***************************************************************************)
nowarn_ws_error == "nowarn_ws_error"
warn_on_ws_error == "warn_on_ws_error"
die_on_ws_error == "die_on_ws_error"
correct_ws_error == "correct_ws_error"

(***************************************************************************)
(* update_pre_post_images: the preimage becomes the whitespace-fixed one,  *)
(* and every common line of the postimage is replaced, in place, by the    *)
(* corresponding line of the fixed preimage.                               *)
(***************************************************************************)
RECURSIVE adjust_postimage(_, _, _, _, _, _, _)
\* i, ctx: 0-based line indices; old, fixed: read offsets; new: bytes written
adjust_postimage(preimage, postimage, i, ctx, old, fixed, new) ==
    IF i >= nr(postimage)
    THEN [postimage EXCEPT !.buf = new \o Drop(postimage.buf, Len(new)),
                           !.len = Len(new)]
    ELSE LET len == postimage.line[i + 1].len IN
         IF postimage.line[i + 1].flag # LINE_COMMON
         THEN adjust_postimage(preimage, postimage, i + 1, ctx, old + len, fixed,
                               new \o Sub(postimage.buf, old, len))
         ELSE LET \* skip the lines of the preimage that are not common
                  RECURSIVE skip(_, _)
                  skip(c, f) ==
                      IF c < nr(preimage) /\ preimage.line[c + 1].flag # LINE_COMMON
                      THEN skip(c + 1, f + preimage.line[c + 1].len)
                      ELSE <<c, f>>
                  at == skip(ctx, fixed)
              IN IF nr(preimage) <= at[1]
                 THEN postimage                     \* die("oops")
                 ELSE LET flen == preimage.line[at[1] + 1].len IN
                      adjust_postimage(
                          preimage,
                          [postimage EXCEPT !.line[i + 1].len = flen],
                          i + 1, at[1] + 1, old + len, at[2] + flen,
                          new \o Sub(preimage.buf, at[2], flen))

update_pre_post_images(preimage, postimage, buf, len) ==
    LET fixed0 == prepare_image(buf, len, TRUE)
        fixed_preimage ==
            [fixed0 EXCEPT !.line =
                [i \in 1..Len(fixed0.line) |->
                    [fixed0.line[i] EXCEPT !.flag =
                        IF i <= nr(preimage) THEN preimage.line[i].flag ELSE 0]]]
    IN [pre |-> fixed_preimage,
        post |-> adjust_postimage(fixed_preimage, postimage, 0, 0, 0, 0, <<>>)]

(***************************************************************************)
(* match_fragment: does the preimage match img at line try_lno (byte       *)
(* offset try)?  Returns ok and the (possibly whitespace-fixed) images.    *)
(***************************************************************************)
RECURSIVE fuzz_lines(_, _, _, _, _, _, _)
\* the loop of lines 1707-1745: <<TRUE, fixed_buf>> when every line matches
fuzz_lines(image, preimage, try_lno, i, orig, target, buf) ==
    IF i >= nr(preimage) THEN <<TRUE, buf>>
    ELSE LET oldlen == preimage.line[i + 1].len
             tgtlen == image.line[try_lno + i + 1].len
             fix == ws_fix_copy(Sub(preimage.buf, orig, oldlen))
             tgtfix == ws_fix_copy(Sub(image.buf, target, tgtlen))
         IN IF tgtfix # fix THEN <<FALSE, buf>>
            ELSE fuzz_lines(image, preimage, try_lno, i + 1,
                            orig + oldlen, target + tgtlen, buf \o fix)

\* lines 1669-1732 without lines 1672-1673: match_beginning is not looked at
match_fragment_anywhere(image, preimage, postimage, try, try_lno, g, match_beginning, match_end) ==
    LET no == [ok |-> FALSE, pre |-> preimage, post |-> postimage]
        yes == [ok |-> TRUE, pre |-> preimage, post |-> postimage]
    IN IF nr(preimage) + try_lno > nr(image) THEN no
       ELSE IF match_end /\ nr(preimage) + try_lno # nr(image) THEN no
       ELSE IF \E i \in 1..nr(preimage) :
                   preimage.line[i].hash # image.line[try_lno + i].hash THEN no
       ELSE IF /\ IF match_end THEN try + preimage.len = image.len
                               ELSE try + preimage.len <= image.len
               /\ Sub(image.buf, try, preimage.len) = Sub(preimage.buf, 0, preimage.len)
            THEN yes
       ELSE IF g.ws_error_action # correct_ws_error THEN no
       ELSE LET f == fuzz_lines(image, preimage, try_lno, 0, 0, try, <<>>) IN
            IF ~f[1] THEN no
            ELSE LET u == update_pre_post_images(preimage, postimage, f[2], Len(f[2]))
                 IN [ok |-> TRUE, pre |-> u.pre, post |-> u.post]

match_fragment(image, preimage, postimage, try, try_lno, g, match_beginning, match_end) ==
    LET no == [ok |-> FALSE, pre |-> preimage, post |-> postimage]
        yes == [ok |-> TRUE, pre |-> preimage, post |-> postimage]
    IN IF nr(preimage) + try_lno > nr(image) THEN no
       ELSE IF match_beginning /\ try_lno # 0 THEN no
       ELSE IF match_end /\ nr(preimage) + try_lno # nr(image) THEN no
       ELSE IF \E i \in 1..nr(preimage) :
                   preimage.line[i].hash # image.line[try_lno + i].hash THEN no
       ELSE IF /\ IF match_end THEN try + preimage.len = image.len
                               ELSE try + preimage.len <= image.len
               /\ Sub(image.buf, try, preimage.len) = Sub(preimage.buf, 0, preimage.len)
            THEN yes
       ELSE IF g.ws_error_action # correct_ws_error THEN no
       ELSE LET f == fuzz_lines(image, preimage, try_lno, 0, 0, try, <<>>) IN
            IF ~f[1] THEN no
            ELSE LET u == update_pre_post_images(preimage, postimage, f[2], Len(f[2]))
                 IN [ok |-> TRUE, pre |-> u.pre, post |-> u.post]

(***************************************************************************)
(* find_pos: the two-sided scan from line.  Returns the line found (or -1) *)
(* with the images as match_fragment left them, and the trial positions in *)
(* the order visited.                                                      *)
(***************************************************************************)
RECURSIVE find_scan(_, _, _, _, _, _, _, _, _, _, _, _)
find_scan(image, preimage, postimage, g, mb, me, i, backwards, backwards_lno, forwards, forwards_lno, tried) ==
    \* "again:" with the next trial still to be chosen
    IF backwards_lno = 0 /\ forwards_lno = nr(image)
    THEN [pos |-> -1, pre |-> preimage, post |-> postimage, tried |-> tried]
    ELSE IF i % 2 = 1 /\ backwards_lno = 0
    THEN find_scan(image, preimage, postimage, g, mb, me, i + 1, backwards,
                   backwards_lno, forwards, forwards_lno, tried)
    ELSE IF i % 2 = 0 /\ forwards_lno = nr(image)
    THEN find_scan(image, preimage, postimage, g, mb, me, i + 1, backwards,
                   backwards_lno, forwards, forwards_lno, tried)
    ELSE LET back == (i % 2 = 1)
             b_lno == IF back THEN backwards_lno - 1 ELSE backwards_lno
             b == IF back THEN backwards - image.line[b_lno + 1].len ELSE backwards
             f == IF back THEN forwards ELSE forwards + image.line[forwards_lno + 1].len
             f_lno == IF back THEN forwards_lno ELSE forwards_lno + 1
             try == IF back THEN b ELSE f
             try_lno == IF back THEN b_lno ELSE f_lno
             m == match_fragment(image, preimage, postimage, try, try_lno, g, mb, me)
         IN IF m.ok
            THEN [pos |-> try_lno, pre |-> m.pre, post |-> m.post,
                  tried |-> Append(tried, try_lno)]
            ELSE find_scan(image, preimage, postimage, g, mb, me, i + 1,
                           b, b_lno, f, f_lno, Append(tried, try_lno))

\* find_pos with the scan entered on an odd i: backwards before forwards
find_pos_backwards_first(image, preimage, postimage, line0, g, match_beginning, match_end) ==
    IF preimage.wrapped \/ nr(preimage) > nr(image)
    THEN [pos |-> -1, pre |-> preimage, post |-> postimage, tried |-> <<>>]
    ELSE LET line1 == IF match_beginning THEN 0
                      ELSE IF match_end THEN nr(image) - nr(preimage)
                      ELSE line0
             line == IF line1 < 0 \/ line1 > nr(image) THEN nr(image) ELSE line1
             try == SumLen(image.line, line)
             m == match_fragment(image, preimage, postimage, try, line, g,
                                 match_beginning, match_end)
         IN IF m.ok
            THEN [pos |-> line, pre |-> m.pre, post |-> m.post, tried |-> <<line>>]
            ELSE find_scan(image, preimage, postimage, g, match_beginning,
                           match_end, 1, try, line, try, line, <<line>>)

\* find_pos with the scan started at the first line, whatever line is given
find_pos_from_top(image, preimage, postimage, line0, g, match_beginning, match_end) ==
    IF preimage.wrapped \/ nr(preimage) > nr(image)
    THEN [pos |-> -1, pre |-> preimage, post |-> postimage, tried |-> <<>>]
    ELSE LET m == match_fragment(image, preimage, postimage, 0, 0, g,
                                 match_beginning, match_end)
         IN IF m.ok
            THEN [pos |-> 0, pre |-> m.pre, post |-> m.post, tried |-> <<0>>]
            ELSE find_scan(image, preimage, postimage, g, match_beginning,
                           match_end, 0, 0, 0, 0, 0, <<0>>)

find_pos(image, preimage, postimage, line0, g, match_beginning, match_end) ==
    IF preimage.wrapped \/ nr(preimage) > nr(image)
    THEN [pos |-> -1, pre |-> preimage, post |-> postimage, tried |-> <<>>]
    ELSE LET line1 == IF match_beginning THEN 0
                      ELSE IF match_end THEN nr(image) - nr(preimage)
                      ELSE line0
             \* int line against size_t img->nr: a negative line compares
             \* as a huge unsigned value
             line == IF line1 < 0 \/ line1 > nr(image) THEN nr(image) ELSE line1
             try == SumLen(image.line, line)
             m == match_fragment(image, preimage, postimage, try, line, g,
                                 match_beginning, match_end)
         IN IF m.ok
            THEN [pos |-> line, pre |-> m.pre, post |-> m.post, tried |-> <<line>>]
            ELSE find_scan(image, preimage, postimage, g, match_beginning,
                           match_end, 0, try, line, try, line, <<line>>)

remove_first_line(image) ==
    IF image.wrapped \/ nr(image) = 0 THEN [image EXCEPT !.wrapped = TRUE]
    ELSE [image EXCEPT !.buf = Drop(@, image.line[1].len),
                       !.len = @ - image.line[1].len,
                       !.line = Tail(@)]

remove_last_line(image) ==
    IF image.wrapped \/ nr(image) = 0 THEN [image EXCEPT !.wrapped = TRUE]
    ELSE [image EXCEPT !.len = @ - image.line[nr(image)].len,
                       !.line = SubSeq(@, 1, nr(image) - 1)]

(***************************************************************************)
(* update_image: replace the preimage.nr lines of img at applied_pos by    *)
(* the postimage.                                                          *)
(***************************************************************************)
update_remove_count(image, applied_pos, preimage) ==
    SumLen(image.line, applied_pos + nr(preimage)) - SumLen(image.line, applied_pos)

\* the third memcpy is given a negative (huge size_t) count
update_image_overrun(image, applied_pos, preimage) ==
    image.len < SumLen(image.line, applied_pos + nr(preimage))

\* update_image without its third memcpy: the lines after the hunk are lost
update_image_no_tail(image, applied_pos, preimage, postimage) ==
    LET applied_at == SumLen(image.line, applied_pos)
    IN [image EXCEPT
          !.buf = Sub(image.buf, 0, applied_at) \o Sub(postimage.buf, 0, postimage.len),
          !.len = applied_at + postimage.len,
          !.line = SubSeq(image.line, 1, applied_pos) \o postimage.line]

update_image(image, applied_pos, preimage, postimage) ==
    LET applied_at == SumLen(image.line, applied_pos)
        remove_count == update_remove_count(image, applied_pos, preimage)
        insert_count == postimage.len
        result == Sub(image.buf, 0, applied_at)
                  \o Sub(postimage.buf, 0, postimage.len)
                  \o Sub(image.buf, applied_at + remove_count,
                         image.len - (applied_at + remove_count))
    IN [image EXCEPT
          !.buf = result,
          !.len = image.len + insert_count - remove_count,
          !.line = SubSeq(image.line, 1, applied_pos)
                   \o postimage.line
                   \o SubSeq(image.line, applied_pos + nr(preimage) + 1, nr(image))]

(***************************************************************************)
(* apply_one_fragment, first part (lines 1916-2045): walk the hunk text    *)
(* and build the preimage and the postimage.                               *)
(***************************************************************************)
RECURSIVE walk_body(_, _, _, _, _)
\* w = [old, new: bytes written so far; pre, post: images; nbl:
\*      new_blank_lines_at_end; ok]
walk_body(patch, off, inaccurate_eof, g, w) ==
    IF off >= Len(patch) THEN w
    ELSE
    LET size == Len(patch) - off
        len == linelen(patch, off)
        plen0 == len - 1
        plen == IF len < size /\ patch[off + len + 1] = BSL THEN plen0 - 1 ELSE plen0
        c == patch[off + 1]
        first == IF g.apply_in_reverse
                 THEN (IF c = "-" THEN "+" ELSE IF c = "+" THEN "-" ELSE c)
                 ELSE c
        data == Sub(patch, off + 1, plen)
        \* case ' ': case '-': the line goes to the preimage
        w_old == [w EXCEPT !.old = @ \o data,
                           !.pre = add_line_info(@, data, plen,
                                       IF first = SP THEN LINE_COMMON ELSE 0)]
        \* case '+' (and the fall-through of ' '): the line goes to the postimage
        fixit == first = "+" /\ g.whitespace_error # 0
                 /\ g.ws_error_action = correct_ws_error
        added == IF fixit THEN ws_fix_copy(data) ELSE data
        put_new(v) == [v EXCEPT !.new = @ \o added,
                                !.post = add_line_info(@, added, Len(added),
                                            IF first = "+" THEN 0 ELSE LINE_COMMON)]
        added_blank_line == first = "+" /\ ~g.no_add /\ added = <<NL>>
        w1 == CASE first = NL ->
                     IF plen < 0 THEN w
                     ELSE [w EXCEPT !.old = Append(@, NL), !.new = Append(@, NL),
                                    !.pre = add_line_info(@, <<NL>>, 1, LINE_COMMON),
                                    !.post = add_line_info(@, <<NL>>, 1, LINE_COMMON)]
                [] first = "-" -> w_old
                [] first = SP -> put_new(w_old)
                [] first = "+" -> IF g.no_add THEN w ELSE put_new(w)
                [] first \in {"@", BSL} -> w
                [] OTHER -> [w EXCEPT !.ok = FALSE]
    IN IF len = 0 THEN w
       ELSE IF ~w1.ok THEN w1
       ELSE walk_body(patch, off + len, inaccurate_eof, g,
                      [w1 EXCEPT !.nbl = IF added_blank_line THEN @ + 1 ELSE 0])

build_images(frag, inaccurate_eof, g) ==
    LET \* lines 2006-2011 and 2030-2045, on what the walk has written
        images(w) ==
            LET cut == /\ inaccurate_eof
                       /\ w.old # <<>> /\ w.old[Len(w.old)] = NL
                       /\ w.new # <<>> /\ w.new[Len(w.new)] = NL
            IN [ok |-> w.ok, nbl |-> w.nbl,
                pre |-> [w.pre EXCEPT
                           !.buf = w.old,
                           !.len = IF cut THEN Len(w.old) - 1 ELSE Len(w.old)],
                post |-> [w.post EXCEPT
                            !.buf = w.new,
                            !.len = IF cut THEN Len(w.new) - 1 ELSE Len(w.new)]]
    IN images(walk_body(frag.patch, 0, inaccurate_eof, g,
                        [old |-> <<>>, new |-> <<>>, pre |-> EmptyImage,
                         post |-> EmptyImage, nbl |-> 0, ok |-> TRUE]))

(***************************************************************************)
(* The locals of apply_one_fragment between its steps.                     *)
(***************************************************************************)
NoLocals ==
    [preimage |-> EmptyImage, postimage |-> EmptyImage, leading |-> 0,
     trailing |-> 0, pos |-> 0, match_beginning |-> FALSE, match_end |-> FALSE,
     applied_pos |-> -1, new_blank_lines_at_end |-> 0, state |-> "none",
     tried |-> <<>>]

\* lines 1916-2045: state "locate" (enter the loop) or "invalid" (return -1)
aof_begin(frag, inaccurate_eof, g) ==
    LET locals(b) ==
            IF ~b.ok THEN [NoLocals EXCEPT !.state = "invalid"]
            ELSE [NoLocals EXCEPT
                    !.preimage = b.pre,
                    !.postimage = b.post,
                    !.new_blank_lines_at_end = b.nbl,
                    !.leading = frag.leading,
                    !.trailing = frag.trailing,
                    !.match_beginning = (frag.oldpos = 0
                                         \/ (frag.oldpos = 1 /\ ~g.unidiff_zero)),
                    !.match_end = (~g.unidiff_zero /\ frag.trailing = 0),
                    !.pos = IF frag.newpos # 0 THEN frag.newpos - 1 ELSE 0,
                    !.state = "locate"]
    IN locals(build_images(frag, inaccurate_eof, g))

\* line 2056, "Am I at my context limits?", tested the other way round
at_context_limit_as_minimum(l, g) ==
    l.leading >= g.p_context /\ l.trailing >= g.p_context

\* line 2056: "Am I at my context limits?"
at_context_limit(l, g) ==
    l.leading <= g.p_context /\ l.trailing <= g.p_context

\* lines 2068-2078 without their two comparisons: both ends always shrink
reduce_context_unguarded(l) ==
    [l EXCEPT !.preimage = remove_last_line(remove_first_line(@)),
              !.postimage = remove_last_line(remove_first_line(@)),
              !.pos = @ - 1,
              !.leading = (@ - 1) % ULongMod,
              !.trailing = (@ - 1) % ULongMod]

\* lines 2063-2078: drop a line of context; leading and trailing are
\* unsigned long, so a decrement at zero would wrap
reduce_context(l) ==
    LET l2 == IF l.leading >= l.trailing
              THEN [l EXCEPT !.preimage = remove_first_line(@),
                             !.postimage = remove_first_line(@),
                             !.pos = @ - 1,
                             !.leading = (@ - 1) % ULongMod]
              ELSE l
    IN IF l2.trailing > l2.leading
       THEN [l2 EXCEPT !.preimage = remove_last_line(@),
                       !.postimage = remove_last_line(@),
                       !.trailing = (@ - 1) % ULongMod]
       ELSE l2

\* lines 2047-2079 with line 2058 asking for both flags
aof_locate_both_flags(image, l, g) ==
    LET after_find_pos(f) ==
            LET l1 == [l EXCEPT !.preimage = f.pre, !.postimage = f.post,
                                !.applied_pos = f.pos, !.tried = f.tried]
            IN IF f.pos >= 0 THEN [l1 EXCEPT !.state = "found"]
               ELSE IF at_context_limit(l, g)
               THEN [l1 EXCEPT !.state = "notfound"]
               ELSE IF l.match_beginning /\ l.match_end
               THEN [l1 EXCEPT !.match_beginning = FALSE, !.match_end = FALSE]
               ELSE reduce_context(l1)
    IN after_find_pos(find_pos(image, l.preimage, l.postimage, l.pos, g,
                               l.match_beginning, l.match_end))

\* one iteration of the for (;;) of lines 2047-2079
aof_locate(image, l, g) ==
    LET \* lines 2051-2079, f being what find_pos returned and left
        after_find_pos(f) ==
            LET l1 == [l EXCEPT !.preimage = f.pre, !.postimage = f.post,
                                !.applied_pos = f.pos, !.tried = f.tried]
            IN IF f.pos >= 0 THEN [l1 EXCEPT !.state = "found"]
               ELSE IF at_context_limit(l, g)
               THEN [l1 EXCEPT !.state = "notfound"]
               ELSE IF l.match_beginning \/ l.match_end
               THEN [l1 EXCEPT !.match_beginning = FALSE, !.match_end = FALSE]
               ELSE reduce_context(l1)
    IN after_find_pos(find_pos(image, l.preimage, l.postimage, l.pos, g,
                               l.match_beginning, l.match_end))

RECURSIVE remove_blank_lines(_, _)
remove_blank_lines(postimage, n) ==
    IF n = 0 THEN postimage ELSE remove_blank_lines(remove_last_line(postimage), n - 1)

\* lines 2081-2093: the postimage update_image is called with
aof_final_postimage(image, l, g) ==
    IF /\ g.ws_error_action = correct_ws_error
       /\ l.new_blank_lines_at_end # 0
       /\ nr(l.postimage) + l.applied_pos = nr(image)
    THEN remove_blank_lines(l.postimage, l.new_blank_lines_at_end)
    ELSE l.postimage

\* lines 2099-2103: the "Context reduced to (%ld/%ld)" warning, or none
aof_warning(frag, l) ==
    IF l.leading # frag.leading \/ l.trailing # frag.trailing
    THEN <<l.leading, l.trailing>> ELSE <<>>

RECURSIVE aof_loop(_, _, _)
\* the for (;;) of lines 2047-2079, run to its break
aof_loop(image, l, g) ==
    IF l.state = "locate" THEN aof_loop(image, aof_locate(image, l, g), g) ELSE l

\* apply_one_fragment as one call: ret is its return value (nonzero: the
\* hunk did not apply), img the image it leaves
apply_one_fragment(image, frag, inaccurate_eof, g) ==
    LET \* lines 2081-2117, l being the locals the loop was left with
        after_loop(l) ==
            IF l.state = "invalid" THEN [ret |-> -1, img |-> image, overrun |-> FALSE]
            ELSE IF l.state # "found" THEN [ret |-> 1, img |-> image, overrun |-> FALSE]
            ELSE IF update_image_overrun(image, l.applied_pos, l.preimage)
            THEN [ret |-> 0, img |-> image, overrun |-> TRUE]
            ELSE [ret |-> 0, overrun |-> FALSE,
                  img |-> update_image(image, l.applied_pos, l.preimage,
                                       aof_final_postimage(image, l, g))]
    IN after_loop(aof_loop(image, aof_begin(frag, inaccurate_eof, g), g))

RECURSIVE apply_fragments_to_failure(_, _, _, _, _)
\* lines 2240-2249 with the return of line 2244 taken under --reject too
apply_fragments_to_failure(image, fs, i, inaccurate_eof, g) ==
    IF i > Len(fs) THEN [ret |-> 0, img |-> image, frags |-> fs, overrun |-> FALSE]
    ELSE LET after_fragment(r) ==
                 IF r.overrun
                 THEN [ret |-> 0, img |-> image, frags |-> fs, overrun |-> TRUE]
                 ELSE IF r.ret # 0
                 THEN [ret |-> IF g.apply_with_reject THEN 0 ELSE -1, img |-> image,
                       frags |-> IF g.apply_with_reject
                                 THEN [fs EXCEPT ![i].rejected = 1] ELSE fs,
                       overrun |-> FALSE]
                 ELSE apply_fragments_to_failure(r.img, fs, i + 1, inaccurate_eof, g)
         IN after_fragment(apply_one_fragment(image, fs[i], inaccurate_eof, g))

RECURSIVE apply_fragments_from(_, _, _, _, _)
\* the while (frag) of apply_fragments (lines 2240-2249) for a text patch
apply_fragments_from(image, fs, i, inaccurate_eof, g) ==
    IF i > Len(fs) THEN [ret |-> 0, img |-> image, frags |-> fs, overrun |-> FALSE]
    ELSE LET \* lines 2241-2248, r being what apply_one_fragment returned
             after_fragment(r) ==
                 IF r.overrun
                 THEN [ret |-> 0, img |-> image, frags |-> fs, overrun |-> TRUE]
                 ELSE IF r.ret # 0 /\ ~g.apply_with_reject
                 THEN [ret |-> -1, img |-> image, frags |-> fs, overrun |-> FALSE]
                 ELSE apply_fragments_from(
                          r.img,
                          IF r.ret # 0 THEN [fs EXCEPT ![i].rejected = 1] ELSE fs,
                          i + 1, inaccurate_eof, g)
         IN after_fragment(apply_one_fragment(image, fs[i], inaccurate_eof, g))

apply_fragments(image, fs, inaccurate_eof, g) ==
    apply_fragments_from(image, fs, 1, inaccurate_eof, g)

(***************************************************************************)
(* parse_fragment (lines 1110-1173): the counters of a hunk body.  body is *)
(* the hunk text after its "@@" line; oldlines and newlines are the counts *)
(* the "@@" line declares.  ret < 0 is the parse error.  wsadd and wsdel   *)
(* count the '+' and the '-' lines ws_check finds fault with: what         *)
(* check_whitespace adds to whitespace_error, forward and in reverse.      *)
(***************************************************************************)
RECURSIVE parse_body(_, _, _)
parse_body(body, off, c) ==
    IF off >= Len(body) \/ (c.oldlines = 0 /\ c.newlines = 0) THEN c
    ELSE
    LET len == linelen(body, off)
        b == body[off + 1]
        dec(n) == (n - 1) % ULongMod
    IN IF len = 0 \/ body[off + len] # NL THEN [c EXCEPT !.ret = -1]
       ELSE IF b \in {NL, SP}
       THEN parse_body(body, off + len,
                [c EXCEPT !.oldlines = dec(@), !.newlines = dec(@),
                          !.leading = IF c.deleted = 0 /\ c.added = 0 THEN @ + 1 ELSE @,
                          !.trailing = @ + 1, !.ret = off + len])
       ELSE IF b = "-"
       THEN parse_body(body, off + len,
                [c EXCEPT !.deleted = @ + 1, !.oldlines = dec(@), !.trailing = 0,
                          !.wsdel = @ + ws_check(Sub(body, off + 1, len - 1)),
                          !.ret = off + len])
       ELSE IF b = "+"
       THEN parse_body(body, off + len,
                [c EXCEPT !.added = @ + 1, !.newlines = dec(@), !.trailing = 0,
                          !.wsadd = @ + ws_check(Sub(body, off + 1, len - 1)),
                          !.ret = off + len])
       ELSE IF b = BSL
       THEN IF len < 12 \/ Sub(body, off, 2) # <<BSL, SP>> THEN [c EXCEPT !.ret = -1]
            ELSE parse_body(body, off + len, [c EXCEPT !.ret = off + len])
       ELSE [c EXCEPT !.ret = -1]

\* lines 1110-1191 without lines 1170-1171: the counters are not looked at
\* once the body has been read
parse_fragment_unchecked(body, oldlines, newlines) ==
    LET c == parse_body(body, 0,
                 [oldlines |-> oldlines, newlines |-> newlines, leading |-> 0,
                  trailing |-> 0, added |-> 0, deleted |-> 0, wsadd |-> 0,
                  wsdel |-> 0, ret |-> 0])
    IN IF c.ret < 0 THEN c
       ELSE IF Len(body) - c.ret > 12 /\ Sub(body, c.ret, 2) = <<BSL, SP>>
       THEN [c EXCEPT !.ret = @ + linelen(body, c.ret)]
       ELSE c

parse_fragment(body, oldlines, newlines) ==
    LET c == parse_body(body, 0,
                 [oldlines |-> oldlines, newlines |-> newlines, leading |-> 0,
                  trailing |-> 0, added |-> 0, deleted |-> 0, wsadd |-> 0,
                  wsdel |-> 0, ret |-> 0])
    IN IF c.ret < 0 THEN c
       ELSE IF c.oldlines # 0 \/ c.newlines # 0 THEN [c EXCEPT !.ret = -1]
       ELSE IF Len(body) - c.ret > 12 /\ Sub(body, c.ret, 2) = <<BSL, SP>>
       THEN [c EXCEPT !.ret = @ + linelen(body, c.ret)]
       ELSE c

(***************************************************************************)
(* The input: hunk text in the unified format parse_fragment reads.  An    *)
(* edit script is a sequence of items [op, text]: op "K" a line kept, "D" *)
(* a line deleted, "A" a line added.                                       *)
(***************************************************************************)
NoNewline == <<BSL, SP, "N", "o", SP, "n", "e", "w", "l", "i", "n", "e", NL>>

Digit(n) == CASE n = 0 -> "0" [] n = 1 -> "1" [] n = 2 -> "2" [] n = 3 -> "3"
              [] n = 4 -> "4" [] n = 5 -> "5" [] n = 6 -> "6" [] n = 7 -> "7"
              [] n = 8 -> "8" [] OTHER -> "9"

HunkHeader(oldpos, oldlines, newpos, newlines) ==
    <<"@", "@", SP, "-", Digit(oldpos), ",", Digit(oldlines), SP,
      "+", Digit(newpos), ",", Digit(newlines), SP, "@", "@", NL>>

OpChar(op) == IF op = "K" THEN SP ELSE IF op = "D" THEN "-" ELSE "+"

IsOld(it) == it.op \in {"K", "D"}
IsNew(it) == it.op \in {"K", "A"}

RECURSIVE CountIf(_, _, _)
\* the number of items among the first n with the given ops
CountIf(items, n, ops) ==
    IF n <= 0 THEN 0
    ELSE CountIf(items, n - 1, ops) + (IF items[n].op \in ops THEN 1 ELSE 0)

\* the index of the last item of a side, 0 if there is none
LastOf(items, ops) ==
    IF \E i \in 1..Len(items) : items[i].op \in ops
    THEN CHOOSE i \in 1..Len(items) :
            items[i].op \in ops /\ \A j \in (i + 1)..Len(items) : items[j].op \notin ops
    ELSE 0

\* the text of item i on a side whose last line lacks its newline when noeol
ItemText(items, i, ops, noeol) ==
    IF noeol /\ i = LastOf(items, ops)
    THEN SubSeq(items[i].text, 1, Len(items[i].text) - 1)
    ELSE items[i].text

RECURSIVE SideBytes(_, _, _, _)
SideBytes(items, i, ops, noeol) ==
    IF i > Len(items) THEN <<>>
    ELSE (IF items[i].op \in ops THEN ItemText(items, i, ops, noeol) ELSE <<>>)
         \o SideBytes(items, i + 1, ops, noeol)

OldBytes(items, noeolOld) == SideBytes(items, 1, {"K", "D"}, noeolOld)
NewBytes(items, noeolNew) == SideBytes(items, 1, {"K", "A"}, noeolNew)

\* one body line of the hunk, with its "\ No newline" marker where due
BodyLine(items, i, noeolOld, noeolNew) ==
    LET it == items[i]
        bare == \/ (IsOld(it) /\ noeolOld /\ i = LastOf(items, {"K", "D"}))
                \/ (IsNew(it) /\ noeolNew /\ i = LastOf(items, {"K", "A"}))
    IN IF bare
       THEN <<OpChar(it.op)>> \o SubSeq(it.text, 1, Len(it.text) - 1) \o <<NL>>
            \o NoNewline
       ELSE <<OpChar(it.op)>> \o it.text

RECURSIVE BodyText(_, _, _, _, _)
BodyText(items, s, e, noeolOld, noeolNew) ==
    IF s > e THEN <<>>
    ELSE BodyLine(items, s, noeolOld, noeolNew)
         \o BodyText(items, s + 1, e, noeolOld, noeolNew)

\* the hunk made of items s..e, with the header positions given
MakeFrag(items, s, e, oldpos, newpos, noeolOld, noeolNew) ==
    LET oldlines == CountIf(items, e, {"K", "D"}) - CountIf(items, s - 1, {"K", "D"})
        newlines == CountIf(items, e, {"K", "A"}) - CountIf(items, s - 1, {"K", "A"})
        body == BodyText(items, s, e, noeolOld, noeolNew)
        c == parse_fragment(body, oldlines, newlines)
    IN [patch |-> HunkHeader(oldpos, oldlines, newpos, newlines) \o body,
        leading |-> c.leading, trailing |-> c.trailing,
        oldpos |-> oldpos, oldlines |-> oldlines,
        newpos |-> newpos, newlines |-> newlines, rejected |-> 0,
        wsadd |-> c.wsadd, wsdel |-> c.wsdel]

\* the hunks a diff with u lines of context makes of the script
InHunk(items, i, u) ==
    \E j \in 1..Len(items) :
        items[j].op # "K" /\ j - i <= u /\ i - j <= u

RECURSIVE DiffFrags(_, _, _, _, _)
DiffFrags(items, i, u, noeolOld, noeolNew) ==
    IF i > Len(items) THEN <<>>
    ELSE IF ~InHunk(items, i, u) THEN DiffFrags(items, i + 1, u, noeolOld, noeolNew)
    ELSE LET e == CHOOSE k \in i..Len(items) :
                     /\ \A j \in i..k : InHunk(items, j, u)
                     /\ (k = Len(items) \/ ~InHunk(items, k + 1, u))
             oldbefore == CountIf(items, i - 1, {"K", "D"})
             newbefore == CountIf(items, i - 1, {"K", "A"})
             oldlines == CountIf(items, e, {"K", "D"}) - oldbefore
             newlines == CountIf(items, e, {"K", "A"}) - newbefore
         IN <<MakeFrag(items, i, e,
                       IF oldlines = 0 THEN oldbefore ELSE oldbefore + 1,
                       IF newlines = 0 THEN newbefore ELSE newbefore + 1,
                       noeolOld, noeolNew)>>
            \o DiffFrags(items, e + 1, u, noeolOld, noeolNew)

\* the script describes two files: a kept line is the same on both sides,
\* so a kept line that ends a side without newline ends both sides so
NoeolOk(items, noeolOld, noeolNew) ==
    LET lo == LastOf(items, {"K", "D"})
        ln == LastOf(items, {"K", "A"})
    IN /\ (noeolOld => (lo # 0 /\ Len(items[lo].text) > 1))
       /\ (noeolOld /\ lo # 0 /\ items[lo].op = "K" => (ln = lo /\ noeolNew))
       /\ (noeolNew => (ln # 0 /\ Len(items[ln].text) > 1))
       /\ (noeolNew /\ ln # 0 /\ items[ln].op = "K" => (lo = ln /\ noeolOld))

(***************************************************************************)
(* The option globals (lines 32-68) and what parse_fragment leaves in      *)
(* whitespace_error.                                                       *)
(***************************************************************************)
DefaultGlob ==
    [unidiff_zero |-> FALSE, p_context |-> UINT_MAX, apply_in_reverse |-> FALSE,
     apply_with_reject |-> FALSE, no_add |-> FALSE, inaccurate_eof |-> FALSE,
     ws_error_action |-> warn_on_ws_error, whitespace_error |-> 0]

RECURSIVE count_ws_errors(_, _, _)
count_ws_errors(fs, i, reverse) ==
    IF i > Len(fs) THEN 0
    ELSE (IF reverse THEN fs[i].wsdel ELSE fs[i].wsadd)
         + count_ws_errors(fs, i + 1, reverse)

\* lines 1140-1150: check_whitespace runs unless the action is nowarn
parsed_whitespace_error(fs, g) ==
    IF g.ws_error_action = nowarn_ws_error THEN 0
    ELSE count_ws_errors(fs, 1, g.apply_in_reverse)

\* reverse_patches, the part on the fragment chain (lines 1519-1522)
reverse_patches(fs) ==
    [i \in 1..Len(fs) |->
        [fs[i] EXCEPT !.oldpos = fs[i].newpos, !.newpos = fs[i].oldpos,
                      !.oldlines = fs[i].newlines, !.newlines = fs[i].oldlines]]

(***************************************************************************)
(* Bounds of the inputs.                                                   *)
(***************************************************************************)
MaxItems == 4       \* items of a generated edit script
MaxCtx == 2         \* lines of context the generated diffs carry, 1..MaxCtx

MaxFileLines == 2   \* lines of a file an arbitrary hunk is applied to
MaxHunkItems == 2   \* body lines of an arbitrary hunk
MaxPos == 2         \* line number an arbitrary hunk's header may name

La == <<"a", NL>>
Lb == <<"b", NL>>
Las == <<"a", SP, NL>>
Lblank == <<NL>>

RECURSIVE SeqsUpTo(_, _)
\* the nonempty sequences over S of length at most n
SeqsUpTo(S, n) ==
    IF n = 0 THEN {}
    ELSE LET shorter == SeqsUpTo(S, n - 1)
         IN {<<x>> : x \in S} \cup shorter
            \cup {Append(q, x) : q \in shorter, x \in S}

GenItems == {[op |-> o, text |-> t] : o \in {"K", "D", "A"}, t \in {La, Lb}}

\* a file, an edit of it, and the patch a diff with u lines of context makes
\* scripts with two changes far enough apart for a diff to make two hunks
TwoHunkScripts ==
    {<<x, [op |-> "K", text |-> La], [op |-> "K", text |-> Lb],
       [op |-> "K", text |-> La], y>> :
        x \in {c \in GenItems : c.op # "K"}, y \in {c \in GenItems : c.op # "K"}}

GenCases ==
    {[items |-> it, u |-> u, noeolOld |-> no, noeolNew |-> nn] :
        it \in {q \in SeqsUpTo(GenItems, MaxItems) : \E i \in 1..Len(q) : q[i].op # "K"}
               \cup TwoHunkScripts,
        u \in 1..MaxCtx, no \in BOOLEAN, nn \in BOOLEAN}

InitGen ==
    \E c \in GenCases :
        /\ NoeolOk(c.items, c.noeolOld, c.noeolNew)
        /\ LET fs == DiffFrags(c.items, 1, c.u, c.noeolOld, c.noeolNew)
               F == OldBytes(c.items, c.noeolOld)
           IN /\ frags = fs
              /\ glob = [DefaultGlob EXCEPT
                           !.whitespace_error = parsed_whitespace_error(fs, DefaultGlob)]
              /\ img = prepare_image(F, Len(F), TRUE)
              /\ hist = [kind |-> "gen", F |-> F, G |-> NewBytes(c.items, c.noeolNew),
                         round |-> "forward", warned |-> <<>>, calls |-> 0]
        /\ fi = 1
        /\ pc = "frag"
        /\ st = NoLocals

\* any small file, with or without its final newline
AnyLines == {La, Las, Lb}

AnyFiles ==
    LET full == {Concat(q) : q \in SeqsUpTo(AnyLines, MaxFileLines)} \cup {<<>>}
    IN full \cup {SubSeq(f, 1, Len(f) - 1) : f \in full \ {<<>>}}

\* any small hunk the parser accepts
AnyItems ==
    {[op |-> "K", text |-> Las], [op |-> "D", text |-> La],
     [op |-> "A", text |-> Lb], [op |-> "A", text |-> Lblank]}

\* -C0, --whitespace=fix, --unidiff-zero, --inaccurate-eof and some pairs
AnyGlobs ==
    {[DefaultGlob EXCEPT !.p_context = o[1], !.ws_error_action = o[2],
                         !.unidiff_zero = o[3], !.inaccurate_eof = o[4]] :
        o \in {<<UINT_MAX, warn_on_ws_error, FALSE, FALSE>>,
               <<0, warn_on_ws_error, FALSE, FALSE>>,
               <<UINT_MAX, correct_ws_error, FALSE, FALSE>>,
               <<0, correct_ws_error, FALSE, FALSE>>,
               <<UINT_MAX, warn_on_ws_error, TRUE, FALSE>>,
               <<0, warn_on_ws_error, TRUE, FALSE>>,
               <<UINT_MAX, warn_on_ws_error, FALSE, TRUE>>,
               <<0, warn_on_ws_error, FALSE, TRUE>>,
               <<UINT_MAX, correct_ws_error, FALSE, TRUE>>}}

InitAny ==
    \E f \in AnyFiles, it \in SeqsUpTo(AnyItems, MaxHunkItems),
       p \in 1..MaxPos, g \in AnyGlobs :
        /\ LET fs == <<MakeFrag(it, 1, Len(it), p, p, FALSE, FALSE)>>
           IN /\ frags = fs
              /\ glob = [g EXCEPT !.whitespace_error = parsed_whitespace_error(fs, g)]
        /\ img = prepare_image(f, Len(f), TRUE)
        /\ hist = [kind |-> "any", F |-> f, G |-> <<>>, round |-> "forward",
                   warned |-> <<>>, calls |-> 0]
        /\ fi = 1
        /\ pc = "frag"
        /\ st = NoLocals

\* scenario S6: three hunks, the middle one cannot be located
S6File == Concat(<<La, Lb, <<"c", NL>>, <<"d", NL>>, <<"e", NL>>>>)

S6Frags ==
    <<MakeFrag(<<[op |-> "D", text |-> La], [op |-> "A", text |-> <<"x", NL>>],
                 [op |-> "K", text |-> Lb]>>, 1, 3, 1, 1, FALSE, FALSE),
      MakeFrag(<<[op |-> "K", text |-> Lb], [op |-> "D", text |-> <<"x", NL>>],
                 [op |-> "K", text |-> <<"d", NL>>]>>, 1, 3, 2, 2, FALSE, FALSE),
      MakeFrag(<<[op |-> "K", text |-> <<"d", NL>>], [op |-> "D", text |-> <<"e", NL>>],
                 [op |-> "A", text |-> <<"f", NL>>]>>, 1, 3, 4, 3, FALSE, FALSE)>>

InitS6 ==
    \E r \in BOOLEAN :
        /\ glob = [DefaultGlob EXCEPT !.apply_with_reject = r]
        /\ frags = S6Frags
        /\ img = prepare_image(S6File, Len(S6File), TRUE)
        /\ hist = [kind |-> "s6", F |-> S6File, G |-> <<>>, round |-> "forward",
                   warned |-> <<>>, calls |-> 0]
        /\ fi = 1
        /\ pc = "frag"
        /\ st = NoLocals

\* scenario S3: a file of six lines, a hunk with three lines of leading and
\* three of trailing context whose last context line is not the file's
S3File == Concat(<<La, Lb, <<"c", NL>>, <<"d", NL>>, <<"e", NL>>, <<"f", NL>>>>)

S3Items ==
    <<[op |-> "K", text |-> La], [op |-> "K", text |-> Lb],
      [op |-> "K", text |-> <<"c", NL>>], [op |-> "A", text |-> <<"x", NL>>],
      [op |-> "K", text |-> <<"d", NL>>], [op |-> "K", text |-> <<"e", NL>>],
      [op |-> "K", text |-> <<"x", NL>>]>>

InitS3 ==
    \E c \in {0, 1, 2, 3, UINT_MAX} :
        /\ glob = [DefaultGlob EXCEPT !.p_context = c]
        /\ frags = <<MakeFrag(S3Items, 1, Len(S3Items), 1, 1, FALSE, FALSE)>>
        /\ img = prepare_image(S3File, Len(S3File), TRUE)
        /\ hist = [kind |-> "s3", F |-> S3File, G |-> <<>>, round |-> "forward",
                   warned |-> <<>>, calls |-> 0]
        /\ fi = 1
        /\ pc = "frag"
        /\ st = NoLocals

\* scenario S2: the file has trailing whitespace the hunk's context line has
\* not, under each whitespace policy, with and without --inaccurate-eof
InitS2 ==
    \E a \in {warn_on_ws_error, correct_ws_error}, e \in BOOLEAN :
        /\ glob = [DefaultGlob EXCEPT !.ws_error_action = a, !.inaccurate_eof = e]
        /\ frags = <<MakeFrag(<<[op |-> "K", text |-> La], [op |-> "D", text |-> Lb],
                                [op |-> "A", text |-> <<"c", NL>>]>>,
                              1, 3, 1, 1, FALSE, FALSE)>>
        /\ img = prepare_image(Las \o Lb, Len(Las \o Lb), TRUE)
        /\ hist = [kind |-> "s2", F |-> Las \o Lb, G |-> <<>>, round |-> "forward",
                   warned |-> <<>>, calls |-> 0]
        /\ fi = 1
        /\ pc = "frag"
        /\ st = NoLocals

\* files of three or four lines in which a hunk can be found at several
\* lines, with hunks whose header names any line of them, as they are,
\* under --unidiff-zero and under -C0
InitSearch ==
    \E f \in {Concat(q) : q \in [1..3 -> {La, Lb}] \cup [1..4 -> {La, Lb}]},
       it \in {<<[op |-> "D", text |-> La]>>,
               <<[op |-> "K", text |-> Lb], [op |-> "D", text |-> La]>>,
               <<[op |-> "D", text |-> La], [op |-> "K", text |-> Lb]>>,
               <<[op |-> "K", text |-> La], [op |-> "A", text |-> Lb],
                 [op |-> "K", text |-> La]>>},
       p \in 1..4,
       g \in {DefaultGlob, [DefaultGlob EXCEPT !.unidiff_zero = TRUE],
              [DefaultGlob EXCEPT !.p_context = 0]} :
        /\ glob = g
        /\ frags = <<MakeFrag(it, 1, Len(it), p, p, FALSE, FALSE)>>
        /\ img = prepare_image(f, Len(f), TRUE)
        /\ hist = [kind |-> "search", F |-> f, G |-> <<>>, round |-> "forward",
                   warned |-> <<>>, calls |-> 0]
        /\ fi = 1
        /\ pc = "frag"
        /\ st = NoLocals

NoRun == [state |-> "none"]

Init == (InitGen \/ InitAny \/ InitS3 \/ InitS6 \/ InitS2 \/ InitSearch) /\ run = NoRun

(***************************************************************************)
(* apply_fragments over the text fragments of one patch, one step of       *)
(* apply_one_fragment at a time.                                           *)
(***************************************************************************)
NextFrag(i) == IF i + 1 > Len(frags) THEN "done" ELSE "frag"

\* apply_fragments takes the next fragment; apply_one_fragment builds the
\* images (lines 2240-2241, 1916-2045)
Begin ==
    /\ pc = "frag"
    /\ st' = aof_begin(frags[fi], glob.inaccurate_eof, glob)
    /\ pc' = IF st'.state = "locate" THEN "locate" ELSE "notfound"
    /\ UNCHANGED <<glob, img, frags, fi, hist, run>>

\* one iteration of the locate loop (lines 2047-2079)
Locate ==
    /\ pc = "locate"
    /\ st' = aof_locate(img, st, glob)
    /\ pc' = CASE st'.state = "found" -> "found"
               [] st'.state = "notfound" -> "notfound"
               [] OTHER -> "locate"
    /\ UNCHANGED <<glob, img, frags, fi, hist, run>>

\* the hunk was located: lines 2081-2104, then apply_fragments goes on
Apply ==
    /\ pc = "found"
    /\ LET post == aof_final_postimage(img, st, glob)
           w == aof_warning(frags[fi], st)
       IN IF update_image_overrun(img, st.applied_pos, st.preimage)
          THEN /\ pc' = "crash"
               /\ UNCHANGED <<img, fi, hist>>
          ELSE /\ img' = update_image(img, st.applied_pos, st.preimage, post)
               /\ hist' = [hist EXCEPT
                            !.calls = @ + 1,
                            !.warned = IF w = <<>> THEN @ ELSE Append(@, <<fi>> \o w)]
               /\ fi' = fi + 1
               /\ pc' = NextFrag(fi)
    /\ UNCHANGED <<glob, frags, st, run>>

\* the hunk was not located: apply_one_fragment returns 1; apply_fragments
\* fails the patch or marks the fragment rejected (lines 2105-2117, 2241-2247)
Reject ==
    /\ pc = "notfound"
    /\ hist' = [hist EXCEPT !.calls = @ + 1]
    /\ IF ~glob.apply_with_reject
       THEN /\ pc' = "failed"
            /\ UNCHANGED <<frags, fi>>
       ELSE /\ frags' = [frags EXCEPT ![fi].rejected = 1]
            /\ fi' = fi + 1
            /\ pc' = NextFrag(fi)
    /\ UNCHANGED <<glob, img, st, run>>

\* a second invocation, with -R, on the file the first one produced:
\* reverse_patches on the freshly parsed patch, the file read anew
Reverse ==
    /\ pc = "done"
    /\ hist.kind = "gen"
    /\ hist.round = "forward"
    /\ LET g == [glob EXCEPT !.apply_in_reverse = TRUE]
           fs == reverse_patches([i \in 1..Len(frags) |-> [frags[i] EXCEPT !.rejected = 0]])
       IN /\ glob' = [g EXCEPT !.whitespace_error = parsed_whitespace_error(fs, g)]
          /\ frags' = fs
    /\ img' = prepare_image(Sub(img.buf, 0, img.len), img.len, TRUE)
    /\ fi' = 1
    /\ pc' = "frag"
    /\ st' = NoLocals
    /\ hist' = [hist EXCEPT !.round = "reverse", !.warned = <<>>]
    /\ UNCHANGED run

Next == Begin \/ Locate \/ Apply \/ Reject \/ Reverse

Spec == Init /\ [][Next]_vars

(***************************************************************************)
(* Properties of apply_fragments on one patch.                             *)
(***************************************************************************)
ImageBytes(image) == Sub(image.buf, 0, image.len)

NoneRejected == \A i \in 1..Len(frags) : frags[i].rejected = 0

Finished == pc \in {"done", "failed"}

\* C1: round trip.  A patch whose hunks describe F -> F' applies to F with
\* the default options, gives exactly F' and rejects no hunk; the same
\* patch under apply_in_reverse, its hunks turned round by reverse_patches,
\* applies to F' and gives back exactly F.
C1_RoundTrip ==
    hist.kind = "gen" =>
        /\ pc \notin {"notfound", "failed", "crash"}
        /\ (pc = "done" /\ hist.round = "forward")
              => (ImageBytes(img) = hist.G /\ NoneRejected)
        /\ (pc = "done" /\ hist.round = "reverse")
              => (ImageBytes(img) = hist.F /\ NoneRejected)

\* a two-hunk patch between two different files has gone there and back
C1_RoundTripDone ==
    /\ hist.kind = "gen"
    /\ hist.round = "reverse"
    /\ pc = "done"
    /\ Len(frags) >= 2
    /\ hist.F # hist.G
    /\ ImageBytes(img) = hist.F

\* C2: line-image invariant.  After every apply_one_fragment call, applied
\* or failed, under every option, the lengths of the image's line table
\* add up to the byte length of its buffer.
C2_LineTableSum ==
    (pc \in {"frag", "done", "failed"} /\ hist.calls > 0)
        => SumLen(img.line, nr(img)) = img.len

C4_WithinDeclared ==
    (pc \in {"locate", "found"} \/ (pc = "notfound" /\ st.state # "invalid")) =>
        /\ st.leading <= frags[fi].leading
        /\ st.trailing <= frags[fi].trailing

C4_LocateStep ==
    pc = "locate" => /\ st'.leading <= st.leading
                     /\ st'.trailing <= st.trailing

\* C4: context reduction never enlarges.  In the locate loop leading and
\* trailing never exceed what the hunk declares (a wrap below zero would
\* make them huge), and no iteration increases either; so a hunk applied
\* after reduction has leading <= frag.leading, trailing <= frag.trailing.
C4_ContextNeverEnlarges == [] C4_WithinDeclared /\ [][C4_LocateStep]_vars

\* a hunk was located after both ends of its context were reduced
C4_AppliedReduced ==
    /\ pc = "found"
    /\ st.leading < frags[fi].leading
    /\ st.trailing < frags[fi].trailing

S3Result ==
    Concat(<<La, Lb, <<"c", NL>>, <<"x", NL>>, <<"d", NL>>, <<"e", NL>>, <<"f", NL>>>>)

\* C7 as stated: in scenario S3 the hunk fails under -C0, and under the
\* default p_context it applies with the trailing context reduced to 0,
\* leading still 3, and the warning "Context reduced to (3/0)".
C7_S3AsStated ==
    (hist.kind = "s3" /\ Finished) =>
        /\ glob.p_context = 0 => pc = "failed"
        /\ glob.p_context = UINT_MAX
              => (pc = "done" /\ hist.warned = <<<<1, 3, 0>>>>)

\* C7: scenario S3 as the code runs it.  Under the default p_context the
\* context is never reduced and the hunk fails, the file untouched; under
\* -C0 the hunk applies once both ends are reduced by one line, the warning
\* reads (2/2), and no p_context has the loop try the context (3/0).
C7_S3ContextReduction ==
    hist.kind = "s3" =>
        /\ ~(pc \in {"locate", "found"} /\ st.leading = 3 /\ st.trailing = 0)
        /\ (Finished /\ glob.p_context = UINT_MAX)
              => (pc = "failed" /\ hist.warned = <<>> /\ ImageBytes(img) = S3File)
        /\ (Finished /\ glob.p_context = 0)
              => (pc = "done" /\ hist.warned = <<<<1, 2, 2>>>>
                  /\ ImageBytes(img) = S3Result)

\* -C0 has applied the S3 hunk with the warning (2/2)
C7_S3AppliedUnderC0 ==
    /\ hist.kind = "s3"
    /\ glob.p_context = 0
    /\ pc = "done"
    /\ hist.warned = <<<<1, 2, 2>>>>

(***************************************************************************)
(* A whole run of cmd_apply: the working tree, the index, the filename     *)
(* table and the list of patches of each input.  All paths are regular     *)
(* files (no modes, directories, symlinks or gitlinks), the command runs   *)
(* inside a repository, and the whitespace action is the default.          *)
(***************************************************************************)
NoFile == [exists |-> FALSE, data |-> <<>>, dir |-> FALSE]

File(d) == [exists |-> TRUE, data |-> d, dir |-> FALSE]

\* an empty directory
Dir == [exists |-> TRUE, data |-> <<>>, dir |-> TRUE]

Paths == {"A", "B"}

\* write_out_one_reject, lines 2985-2992: the name of the reject file
RejName(name) == name \o ".rej"

TreePaths == Paths \cup {RejName(q) : q \in Paths}

PATH_WAS_DELETED == -1

PATH_TO_BE_DELETED == -2

\* the table maps a path to 0 (not in the table), to one of the two marks
\* or to the position in the list of the patch whose result it holds
in_fn_table(fn, name) == IF name = "" THEN 0 ELSE fn[name]

to_be_deleted(tpatch) == tpatch = PATH_TO_BE_DELETED

was_deleted(tpatch) == tpatch = PATH_WAS_DELETED

\* add_to_fn_table that forgets the patched copy of new_name
add_to_fn_table_old_only(fn, patch, k) ==
    IF patch.new_name = "" \/ patch.is_rename
    THEN [fn EXCEPT ![patch.old_name] = PATH_WAS_DELETED]
    ELSE fn

add_to_fn_table(fn, patch, k) ==
    LET fn1 == IF patch.new_name # "" THEN [fn EXCEPT ![patch.new_name] = k] ELSE fn
    IN IF patch.new_name = "" \/ patch.is_rename
       THEN [fn1 EXCEPT ![patch.old_name] = PATH_WAS_DELETED]
       ELSE fn1

RECURSIVE prepare_fn_table(_, _, _)
prepare_fn_table(fn, list, i) ==
    IF i > Len(list) THEN fn
    ELSE prepare_fn_table(
             IF list[i].new_name = "" \/ list[i].is_rename
             THEN [fn EXCEPT ![list[i].old_name] = PATH_TO_BE_DELETED]
             ELSE fn,
             list, i + 1)

\* parse_whitespace_option, lines 70-98; "" is the null pointer
parse_whitespace_option(option) ==
    CASE option = "" -> warn_on_ws_error
      [] option = "warn" -> warn_on_ws_error
      [] option = "nowarn" -> nowarn_ws_error
      [] option \in {"error", "error-all"} -> die_on_ws_error
      [] option \in {"strip", "fix"} -> correct_ws_error

\* set_default_whitespace_mode, lines 100-104, with no apply.whitespace
\* configured
set_default_whitespace_mode(o) ==
    IF o.whitespace_option = ""
    THEN [o EXCEPT !.ws_error_action = IF o.apply THEN warn_on_ws_error
                                       ELSE nowarn_ws_error]
    ELSE o

\* cmd_apply, lines 3330-3345: what the options make of ws_error_action,
\* apply and check_index
cmd_apply_options(o) ==
    LET apply1 == IF o.apply_with_reject THEN TRUE ELSE o.apply
        apply2 == IF ~o.force_apply /\ o.check THEN FALSE ELSE apply1
    IN [o EXCEPT !.ws_error_action = parse_whitespace_option(o.whitespace_option),
                 !.apply = apply2,
                 !.check_index = IF o.cached THEN TRUE ELSE @]

\* the globals apply_fragments reads
run_glob(o) ==
    [DefaultGlob EXCEPT !.apply_with_reject = o.apply_with_reject,
                        !.ws_error_action = o.ws_error_action,
                        !.whitespace_error = o.whitespace_error]

\* lines 3127-3157 without line 3156: whitespace errors leave apply alone
parse_input_keeps_apply(o, list) ==
    [o EXCEPT !.whitespace_error =
        @ + parsed_whitespace_error(
                Concat([i \in 1..Len(list) |-> list[i].fragments]), run_glob(o))]

\* apply_patch, lines 3127-3157: the input is parsed, check_whitespace
\* counting over the fragments of all its patches, and whitespace errors
\* under die_on_ws_error turn apply off
parse_input(o, list) ==
    LET counted(n) == [o EXCEPT !.whitespace_error = n,
                                !.apply = IF n # 0 /\ o.ws_error_action = die_on_ws_error
                                          THEN FALSE ELSE @]
    IN counted(o.whitespace_error
               + parsed_whitespace_error(
                     Concat([i \in 1..Len(list) |-> list[i].fragments]), run_glob(o)))

\* lines 2354 and 2449 with the table looked up for every patch
consults_fn_table_always(patch) == TRUE

\* lines 2354 and 2449: the table is not looked up for the old name of a
\* copy or of a rename
consults_fn_table(patch) == ~(patch.is_copy \/ patch.is_rename)

\* check_preimage: status, the patch as it leaves it, the cache entry found,
\* the working tree (checkout_entry may write to it) and what was written
check_preimage(patch, fn, wt, cache, o) ==
    LET old_name == patch.old_name
        consulted == consults_fn_table(patch)
        tp0 == IF consulted THEN in_fn_table(fn, old_name) ELSE 0
        in_memory == tp0 # 0 /\ ~to_be_deleted(tp0)
        stat_ret == IF ~in_memory /\ ~o.cached /\ ~wt[old_name].exists THEN -1 ELSE 0
        tpatch == IF to_be_deleted(tp0) THEN 0 ELSE tp0
        out(status, q, ce, w, ops) ==
            [status |-> status, patch |-> q, ce |-> ce, wt |-> w, fsops |-> ops]
        is_new == out(0, [patch EXCEPT !.is_new = 1, !.is_delete = 0, !.old_name = ""],
                      NoFile, wt, <<>>)
        known(q) == [q EXCEPT !.is_new = IF @ < 0 THEN 0 ELSE @]
        \* return error(...)
        error(msg, ce, w, ops) == out(-1, [patch EXCEPT !.error = msg], ce, w, ops)
    IN IF old_name = "" THEN out(0, patch, NoFile, wt, <<>>)
       ELSE IF in_memory /\ was_deleted(tp0)
       THEN error("has been deleted/renamed", NoFile, wt, <<>>)
       ELSE IF o.check_index /\ tpatch = 0
       THEN IF ~cache[old_name].exists
            THEN (IF patch.is_new < 0 THEN is_new
                  ELSE error("does not exist in index", NoFile, wt, <<>>))
            ELSE LET co == stat_ret < 0
                     wt1 == IF co THEN [wt EXCEPT ![old_name] = cache[old_name]] ELSE wt
                     ops == IF co THEN <<[op |-> "checkout_entry", path |-> old_name]>>
                            ELSE <<>>
                 IN \* verify_index_match: the file is the one the index records
                    IF ~o.cached /\ wt1[old_name] # cache[old_name]
                    THEN error("does not match index", cache[old_name], wt1, ops)
                    ELSE out(0, known(patch), cache[old_name], wt1, ops)
       ELSE IF stat_ret < 0
       THEN (IF patch.is_new < 0 THEN is_new
             ELSE error("No such file or directory", NoFile, wt, <<>>))
       ELSE IF ~o.cached /\ tpatch = 0 /\ wt[old_name].dir
       THEN error("wrong type", NoFile, wt, <<>>)
       ELSE out(0, known(patch), NoFile, wt, <<>>)

\* apply_data: where the preimage comes from, apply_fragments, the table
apply_data(patch, k, ce, list, fn, wt, o) ==
    LET consulted == consults_fn_table(patch)
        tpatch == IF consulted THEN in_fn_table(fn, patch.old_name) ELSE 0
        in_memory == tpatch # 0 /\ ~to_be_deleted(tpatch)
        src == IF in_memory THEN "memory"
               ELSE IF o.cached THEN "index"
               ELSE IF patch.old_name # "" THEN "disk"
               ELSE "none"
        buf == CASE src = "memory" /\ ~was_deleted(tpatch) -> list[tpatch].result
                 [] src = "index" -> ce.data
                 [] src = "disk" -> wt[patch.old_name].data
                 [] OTHER -> <<>>
        \* lines 2381-2395, r being what apply_fragments returned and left
        after_fragments(r) ==
            LET done == [patch EXCEPT !.result = ImageBytes(r.img),
                                      !.resultsize = r.img.len,
                                      !.fragments = r.frags,
                                      !.src = src, !.preimage = buf]
            IN IF r.ret < 0 \/ r.overrun
               THEN [status |-> -1, fn |-> fn,
                     patch |-> [patch EXCEPT !.src = src, !.preimage = buf]]
               ELSE IF patch.is_delete > 0 /\ done.resultsize # 0
               THEN [status |-> -1, fn |-> add_to_fn_table(fn, done, k),
                     patch |-> [done EXCEPT
                                  !.error = "removal patch leaves file contents"]]
               ELSE [status |-> 0, patch |-> done,
                     fn |-> add_to_fn_table(fn, done, k)]
    IN IF in_memory /\ was_deleted(tpatch)
       THEN [status |-> -1, fn |-> fn,
             patch |-> [patch EXCEPT !.error = "has been renamed/deleted"]]
       ELSE after_fragments(apply_fragments(prepare_image(buf, Len(buf), TRUE),
                                            patch.fragments, FALSE, run_glob(o)))

\* lines 2398-2419 with the directory refused like any other file
check_to_create_blob_any(new_name, ok_if_exists, wt) ==
    IF wt[new_name].exists /\ ~ok_if_exists THEN -1 ELSE 0

\* check_to_create_blob for a path with no symlink in front of it
check_to_create_blob(new_name, ok_if_exists, wt) ==
    IF wt[new_name].exists /\ ~(wt[new_name].dir \/ ok_if_exists) THEN -1 ELSE 0

\* check_patch for the k-th patch of the list
check_patch(k, list, fn, wt, cache, o) ==
    LET \* lines 2526-2581, pre being what check_preimage returned and left
        after_preimage(pre) ==
            LET patch == pre.patch
                new_name == patch.new_name
                tpatch == in_fn_table(fn, new_name)
                ok_if_exists == tpatch # 0
                                /\ (was_deleted(tpatch) \/ to_be_deleted(tpatch))
                creates == new_name # ""
                           /\ (patch.is_new > 0 \/ patch.is_rename \/ patch.is_copy)
                out(status, q, f) ==
                    [status |-> status, patch |-> q, fn |-> f,
                     wt |-> pre.wt, fsops |-> pre.fsops]
                \* lines 2577-2580, data being what apply_data returned and left
                after_data(data) ==
                    IF data.status < 0
                    THEN out(-1, [data.patch EXCEPT
                                    !.error = IF @ = "" THEN "patch does not apply"
                                              ELSE @],
                             data.fn)
                    ELSE out(0, [data.patch EXCEPT !.rejected = 0], data.fn)
            IN IF pre.status # 0 THEN out(pre.status, patch, fn)
               ELSE IF creates /\ o.check_index /\ cache[new_name].exists
                       /\ ~ok_if_exists
               THEN out(-1, [patch EXCEPT !.error = "already exists in index"], fn)
               ELSE IF creates /\ ~o.cached
                       /\ check_to_create_blob(new_name, ok_if_exists, pre.wt) # 0
               THEN out(-1, [patch EXCEPT
                               !.error = "already exists in working directory"],
                        fn)
               ELSE after_data(apply_data(patch, k, pre.ce, list, fn, pre.wt, o))
    IN after_preimage(check_preimage([list[k] EXCEPT !.rejected = 1],
                                     fn, wt, cache, o))

(***************************************************************************)
(* Writing out.  Each operator takes the run record and gives it back.     *)
(* calls logs the calls write_out_one_result makes, fsops every change     *)
(* made to the working tree.                                               *)
(***************************************************************************)
remove_file(r, patch) ==
    LET name == patch.old_name
        gone == ~r.o.cached /\ r.wt[name].exists /\ ~r.wt[name].dir
    IN [r EXCEPT
          !.cache = IF r.o.update_index THEN [@ EXCEPT ![name] = NoFile] ELSE @,
          !.wt = IF gone THEN [@ EXCEPT ![name] = NoFile] ELSE @,
          !.fsops = IF gone THEN Append(@, [op |-> "unlink", path |-> name]) ELSE @]

\* create_one_file: open with O_EXCL, and on EEXIST an empty directory is
\* removed and a temporary file renamed over the path
create_one_file(r, path, buf) ==
    IF r.o.cached THEN r
    ELSE [r EXCEPT
            !.wt = [@ EXCEPT ![path] = File(buf)],
            !.fsops = IF r.wt[path].dir
                      THEN @ \o <<[op |-> "rmdir", path |-> path],
                                  [op |-> "create_tmp", path |-> path],
                                  [op |-> "rename", path |-> path]>>
                      ELSE IF r.wt[path].exists
                      THEN @ \o <<[op |-> "create_tmp", path |-> path],
                                  [op |-> "rename", path |-> path]>>
                      ELSE Append(@, [op |-> "create", path |-> path])]

add_index_file(r, path, buf) ==
    IF ~r.o.update_index THEN r
    ELSE [r EXCEPT !.cache = [@ EXCEPT ![path] = File(buf)]]

create_file(r, patch) ==
    add_index_file(create_one_file(r, patch.new_name, patch.result),
                   patch.new_name, patch.result)

\* what the call of write_out_one_result does in this phase: "remove_file",
\* "create_file" or "" (nothing)
write_out_call(patch, phase) ==
    IF patch.is_delete > 0 THEN (IF phase = 0 THEN "remove_file" ELSE "")
    ELSE IF patch.is_new > 0 \/ patch.is_copy
    THEN (IF phase = 1 THEN "create_file" ELSE "")
    ELSE IF phase = 0 THEN "remove_file" ELSE "create_file"

write_out_one_result(r, l, phase) ==
    LET patch == r.list[l]
        call == write_out_call(patch, phase)
        r1 == CASE call = "remove_file" -> remove_file(r, patch)
                [] call = "create_file" -> create_file(r, patch)
                [] OTHER -> r
    IN IF call = "" THEN r
       ELSE [r1 EXCEPT !.calls = Append(@, [inp |-> r.inp, phase |-> phase, l |-> l,
                                            call |-> call,
                                            path |-> IF call = "remove_file"
                                                     THEN patch.old_name
                                                     ELSE patch.new_name])]

\* fprintf(rej, "diff a/%s b/%s\t(rejected hunks)\n", ...), line 3003
RejHeader(name) ==
    <<"d", "i", "f", "f", SP, "a", "/", name, SP, "b", "/", name, "\t",
      "(", "r", "e", "j", "e", "c", "t", "e", "d", SP,
      "h", "u", "n", "k", "s", ")", NL>>

RECURSIVE RejBody(_, _)
\* lines 3005-3016: the text of the rejected hunks, each ended by a newline
RejBody(fs, i) ==
    IF i > Len(fs) THEN <<>>
    ELSE (IF fs[i].rejected = 0 THEN <<>>
          ELSE fs[i].patch
               \o (IF fs[i].patch[Len(fs[i].patch)] # NL THEN <<NL>> ELSE <<>>))
         \o RejBody(fs, i + 1)

RejCount(fs) == Cardinality({i \in 1..Len(fs) : fs[i].rejected # 0})

\* write_out_one_reject: ret 0 (no rejects), -1 (rejects written), or died
write_out_one_reject(r, l) ==
    LET patch == r.list[l]
        rej == RejName(patch.new_name)
    IN IF RejCount(patch.fragments) = 0 THEN [ret |-> 0, died |-> FALSE, r |-> r]
       ELSE IF patch.new_name = "" THEN [ret |-> 0, died |-> TRUE, r |-> r]
       ELSE [ret |-> -1, died |-> FALSE,
             r |-> [r EXCEPT
                      !.wt = [@ EXCEPT ![rej] =
                                 File(RejHeader(patch.new_name)
                                      \o RejBody(patch.fragments, 1))],
                      !.fsops = Append(@, [op |-> "write_reject", path |-> rej])]]

\* the order of a list of n patches taken patch by patch, both phases each
write_out_order_per_patch(n) ==
    [i \in 1..(2 * n) |-> <<(i - 1) % 2, ((i - 1) \div 2) + 1>>]

\* write_out_results, lines 3030-3042: the <<phase, patch>> pairs in the
\* order of the two nested loops
write_out_order(n) ==
    [i \in 1..(2 * n) |-> <<(i - 1) \div n, ((i - 1) % n) + 1>>]

\* exit(1), die(): the lock file is removed, nothing more is written
exit_run(r, status, cause) ==
    [r EXCEPT !.state = "exit", !.status = status, !.cause = cause,
              !.lock = IF @ = "held" THEN "rolled_back" ELSE @]

\* apply_patch after check_patch_list, lines 3167-3173
after_check_patch_list(r) ==
    IF (r.o.check \/ r.o.apply) /\ r.err < 0 /\ ~r.o.apply_with_reject
    THEN exit_run(r, 1, "check")
    ELSE IF r.o.apply
    THEN (IF Len(r.list) = 0 THEN exit_run(r, 1, "write")
          ELSE [r EXCEPT !.state = "write", !.wpos = 1, !.errs = 0])
    ELSE [r EXCEPT !.state = "input", !.inp = @ + 1]

\* apply_patch after write_out_results, lines 3172-3189
after_write_out_results(r) ==
    IF r.errs # 0 THEN exit_run(r, 1, "write")
    ELSE [r EXCEPT !.state = "input", !.inp = @ + 1]

(***************************************************************************)
(* The inputs of a run: patches as parse_chunk leaves them (git diffs of   *)
(* regular files), working trees with their index, and option sets.        *)
(***************************************************************************)
MaxInputs == 2      \* patch input files on the command line

Ln(c) == <<c, NL>>

It(op, c) == [op |-> op, text |-> Ln(c)]

MkPatch(old_name, new_name, is_new, is_delete, is_rename, fragments) ==
    [old_name |-> old_name, new_name |-> new_name, is_new |-> is_new,
     is_delete |-> is_delete, is_rename |-> is_rename, is_copy |-> FALSE,
     fragments |-> fragments, rejected |-> 0, result |-> <<>>, resultsize |-> 0,
     error |-> "",
     src |-> "unset", preimage |-> <<>>]

FA == Ln("a") \o Ln("b")

FAc == FA \o Ln("c")

\* a -> x before the context line b
H_ax == MakeFrag(<<It("D", "a"), It("A", "x"), It("K", "b")>>, 1, 3, 1, 1, FALSE, FALSE)

\* b -> y after the context line x
H_by == MakeFrag(<<It("K", "x"), It("D", "b"), It("A", "y")>>, 1, 3, 1, 1, FALSE, FALSE)

\* z -> x before the context line b: no file here has the line z
H_zx == MakeFrag(<<It("D", "z"), It("A", "x"), It("K", "b")>>, 1, 3, 1, 1, FALSE, FALSE)

H_del == MakeFrag(<<It("D", "a"), It("D", "b")>>, 1, 2, 1, 0, FALSE, FALSE)

H_delz == MakeFrag(<<It("D", "z")>>, 1, 1, 1, 0, FALSE, FALSE)

H_new == MakeFrag(<<It("A", "x")>>, 1, 1, 0, 1, FALSE, FALSE)

\* scenario S4: rename A to B with a hunk, then a patch to B
S4List == <<MkPatch("A", "B", 0, 0, TRUE, <<H_ax>>),
            MkPatch("B", "B", 0, 0, FALSE, <<H_by>>)>>

S4Result == Ln("x") \o Ln("y")

\* scenario S6: a patch to B of three hunks, the middle one not locatable
S6List == <<MkPatch("B", "B", 0, 0, FALSE, S6Frags)>>

S6Result == Concat(<<Ln("x"), Ln("b"), Ln("c"), Ln("d"), Ln("f")>>)

\* a patch to A, a -> "x " before the context line b: the added line has
\* trailing whitespace
WsList ==
    <<MkPatch("A", "A", 0, 0, FALSE,
              <<MakeFrag(<<It("D", "a"), [op |-> "A", text |-> <<"x", SP, NL>>],
                           It("K", "b")>>, 1, 3, 1, 1, FALSE, FALSE)>>)>>

PatchLists ==
    {S4List,
     S6List,
     <<MkPatch("A", "A", 0, 0, FALSE, <<H_ax>>)>>,
     <<MkPatch("A", "A", 0, 0, FALSE, <<H_zx>>)>>,
     <<MkPatch("A", "A", 0, 0, FALSE, <<H_ax>>),
       MkPatch("B", "B", 0, 0, FALSE, <<H_zx>>)>>,
     <<MkPatch("A", "", 0, 1, FALSE, <<H_del>>),
       MkPatch("", "A", 1, 0, FALSE, <<H_new>>)>>,
     <<MkPatch("A", "", 0, 1, FALSE, <<H_delz>>)>>,
     WsList,
     \* a patch to A, then A renamed to B, or copied to B, with the same hunk
     <<MkPatch("A", "A", 0, 0, FALSE, <<H_ax>>),
       MkPatch("A", "B", 0, 0, TRUE, <<H_ax>>)>>,
     <<MkPatch("A", "A", 0, 0, FALSE, <<H_ax>>),
       [MkPatch("A", "B", 0, 0, FALSE, <<H_ax>>) EXCEPT !.is_copy = TRUE]>>,
     \* A created
     <<MkPatch("", "A", 1, 0, FALSE, <<H_new>>)>>,
     \* A deleted, or renamed to B, then a patch to A
     <<MkPatch("A", "", 0, 1, FALSE, <<H_del>>),
       MkPatch("A", "A", 0, 0, FALSE, <<H_ax>>)>>,
     <<MkPatch("A", "B", 0, 0, TRUE, <<H_ax>>),
       MkPatch("A", "A", 0, 0, FALSE, <<H_ax>>)>>,
     \* A deleted, then copied to B
     <<MkPatch("A", "", 0, 1, FALSE, <<H_del>>),
       [MkPatch("A", "B", 0, 0, FALSE, <<H_ax>>) EXCEPT !.is_copy = TRUE]>>}

Tree(a, b) == [q \in TreePaths |-> IF q = "A" THEN a ELSE IF q = "B" THEN b ELSE NoFile]

\* working tree and index
Trees ==
    {[wt |-> Tree(File(FA), NoFile), index |-> Tree(File(FA), NoFile)],
     [wt |-> Tree(File(FA), File(S6File)), index |-> Tree(File(FA), File(S6File))],
     [wt |-> Tree(NoFile, NoFile), index |-> Tree(File(FA), NoFile)],
     [wt |-> Tree(File(FA), NoFile), index |-> Tree(NoFile, NoFile)],
     [wt |-> Tree(File(<<>>), NoFile), index |-> Tree(File(<<>>), NoFile)],
     [wt |-> Tree(File(FAc), NoFile), index |-> Tree(File(FA), NoFile)],
     [wt |-> Tree(Dir, NoFile), index |-> Tree(NoFile, NoFile)]}

\* --check, --index, --cached, --reject, --apply, --whitespace=<option>
OptionSets ==
    {[check |-> c[1], check_index |-> c[2], cached |-> c[3],
      apply_with_reject |-> c[4], force_apply |-> c[5],
      whitespace_option |-> c[6], ws_error_action |-> warn_on_ws_error,
      whitespace_error |-> 0, apply |-> TRUE, update_index |-> FALSE] :
        c \in {<<FALSE, FALSE, FALSE, FALSE, FALSE, "">>,
               <<TRUE, FALSE, FALSE, FALSE, FALSE, "">>,
               <<TRUE, TRUE, FALSE, FALSE, FALSE, "">>,
               <<FALSE, TRUE, FALSE, FALSE, FALSE, "">>,
               <<FALSE, FALSE, TRUE, FALSE, FALSE, "">>,
               <<FALSE, FALSE, FALSE, TRUE, FALSE, "">>,
               <<FALSE, FALSE, TRUE, TRUE, FALSE, "">>,
               <<FALSE, TRUE, FALSE, TRUE, FALSE, "">>,
               <<TRUE, FALSE, FALSE, FALSE, TRUE, "">>,
               <<TRUE, FALSE, TRUE, FALSE, FALSE, "">>,
               <<FALSE, FALSE, FALSE, FALSE, FALSE, "error">>,
               <<TRUE, FALSE, FALSE, FALSE, FALSE, "error">>,
               <<FALSE, TRUE, FALSE, FALSE, FALSE, "error">>,
               <<FALSE, FALSE, FALSE, TRUE, FALSE, "error">>}}

RunInit ==
    /\ \E o \in OptionSets, t \in Trees, ins \in SeqsUpTo(PatchLists, MaxInputs) :
          run = [state |-> "argv", o |-> o, given |-> o, inputs |-> ins, inp |-> 1,
                 list |-> <<>>, fn_table |-> [q \in Paths |-> 0],
                 wt |-> t.wt, wt0 |-> t.wt, index_file |-> t.index,
                 index0 |-> t.index, cache |-> Tree(NoFile, NoFile),
                 cache_loaded |-> FALSE, lock |-> "none", err |-> 0, errs |-> 0,
                 k |-> 1, wpos |-> 1, calls |-> <<>>, fsops |-> <<>>,
                 status |-> 0, cause |-> ""]
    /\ glob = DefaultGlob
    /\ img = EmptyImage
    /\ frags = <<>>
    /\ fi = 1
    /\ pc = "run"
    /\ st = NoLocals
    /\ hist = [kind |-> "run"]

(***************************************************************************)
(* The steps of cmd_apply.                                                 *)
(***************************************************************************)
\* lines 3335-3345
CmdApplyOptions ==
    /\ run.state = "argv"
    /\ run' = [run EXCEPT !.o = cmd_apply_options(@), !.state = "input"]
    /\ UNCHANGED <<glob, img, frags, fi, pc, st, hist>>

\* apply_patch up to check_patch_list's prepare_fn_table: lines 3124-3165, 2588
ApplyPatch ==
    /\ run.state = "input"
    /\ run.inp <= Len(run.inputs)
    /\ LET list == run.inputs[run.inp]
           o0 == parse_input(set_default_whitespace_mode(run.o), list)
           o1 == [o0 EXCEPT !.update_index = o0.check_index /\ o0.apply]
           load == o1.check_index /\ ~run.cache_loaded
           r1 == [run EXCEPT
                    !.o = o1,
                    !.list = list,
                    !.fn_table = [q \in Paths |-> 0],
                    !.lock = IF o1.update_index /\ @ = "none" THEN "held" ELSE @,
                    !.cache = IF load THEN run.index_file ELSE @,
                    !.cache_loaded = @ \/ load,
                    !.err = 0,
                    !.k = 1]
       IN run' = IF o1.check \/ o1.apply
                 THEN [r1 EXCEPT !.fn_table = prepare_fn_table(@, list, 1),
                                 !.state = "check"]
                 ELSE after_check_patch_list(r1)
    /\ UNCHANGED <<glob, img, frags, fi, pc, st, hist>>

\* one turn of the loop of check_patch_list (lines 2589-2595); after the
\* last patch, apply_patch goes on (lines 3167-3173)
CheckPatch ==
    /\ run.state = "check"
    /\ LET \* c being what check_patch returned and left
           checked(c) ==
               LET r1 == [run EXCEPT
                            !.list = [@ EXCEPT ![run.k] = c.patch],
                            !.fn_table = c.fn,
                            !.wt = c.wt,
                            !.fsops = @ \o c.fsops,
                            !.err = IF c.status < 0 THEN -1 ELSE @,
                            !.k = @ + 1]
               IN IF r1.k <= Len(r1.list) THEN r1 ELSE after_check_patch_list(r1)
       IN run' = checked(check_patch(run.k, run.list, run.fn_table, run.wt,
                                     run.cache, run.o))
    /\ UNCHANGED <<glob, img, frags, fi, pc, st, hist>>

\* one turn of the inner loop of write_out_results (lines 3032-3041); after
\* the last one, apply_patch goes on (lines 3172-3189)
WriteOut ==
    /\ run.state = "write"
    /\ LET order == write_out_order(Len(run.list))
           phase == order[run.wpos][1]
           l == order[run.wpos][2]
           r1 == write_out_one_result(run, l, phase)
           rej == write_out_one_reject(r1, l)
           r2 == IF run.list[l].rejected # 0 THEN [run EXCEPT !.errs = 1]
                 ELSE IF phase = 1
                 THEN [rej.r EXCEPT !.errs = IF rej.ret # 0 THEN 1 ELSE @]
                 ELSE r1
           r3 == [r2 EXCEPT !.wpos = @ + 1]
       IN run' = IF run.list[l].rejected = 0 /\ phase = 1 /\ rej.died
                 THEN exit_run(r1, 128, "die")
                 ELSE IF r3.wpos <= Len(order) THEN r3
                 ELSE after_write_out_results(r3)
    /\ UNCHANGED <<glob, img, frags, fi, pc, st, hist>>

\* cmd_apply after its last input: lines 3395-3401
Finish ==
    /\ run.state = "input"
    /\ run.inp > Len(run.inputs)
    /\ run' = IF run.o.whitespace_error # 0
                  /\ set_default_whitespace_mode(run.o).ws_error_action = die_on_ws_error
               THEN exit_run(run, 128, "whitespace")
               ELSE [run EXCEPT
                       !.state = "exit", !.status = 0, !.cause = "done",
                       !.index_file = IF run.o.update_index THEN run.cache ELSE @,
                       !.lock = IF run.o.update_index THEN "committed" ELSE @]
    /\ UNCHANGED <<glob, img, frags, fi, pc, st, hist>>

RunNext == CmdApplyOptions \/ ApplyPatch \/ CheckPatch \/ WriteOut \/ Finish

RunSpec == RunInit /\ [][RunNext]_vars

(***************************************************************************)
(* Properties of a run.                                                    *)
(***************************************************************************)
Exited == run.state = "exit"

\* the run applies to the working tree: neither --check alone nor --cached
WritesTree == (~run.given.check \/ run.given.force_apply) /\ ~run.given.cached

CleanTree ==
    /\ run.wt0 = Tree(File(FA), NoFile)
    /\ run.index0 = Tree(File(FA), NoFile)

\* the calls write_out_results has made for the input it is working on
CallsNow == SelectSeq(run.calls, LAMBDA c : c.inp = run.inp)

\* C3: write-out ordering.  Within one write_out_results no phase-0 call
\* follows a phase-1 call; once a creation has been made, every patch of
\* the list that is not rejected and has a removal to make has made it; so
\* no path is created before an earlier patch that deletes or renames away
\* that path has removed it.
C3_RemovalsBeforeCreations ==
    LET calls == CallsNow
        removed(l, n) == \E i \in 1..n : calls[i].l = l /\ calls[i].call = "remove_file"
    IN run.state \in {"write", "exit"} =>
        /\ \A i, j \in 1..Len(calls) : i < j => calls[i].phase <= calls[j].phase
        /\ \A j \in 1..Len(calls) :
              calls[j].phase = 1 =>
                 /\ \A l \in 1..Len(run.list) :
                       (run.list[l].rejected = 0
                        /\ write_out_call(run.list[l], 0) = "remove_file")
                          => removed(l, j - 1)
                 /\ \A l \in 1..(calls[j].l - 1) :
                       (/\ run.list[l].rejected = 0
                        /\ (run.list[l].is_delete > 0 \/ run.list[l].is_rename)
                        /\ run.list[l].old_name = calls[j].path)
                          => removed(l, j - 1)

\* a path was created after an earlier patch of the list had removed it
C3_CreatedAfterRemoval ==
    \E i, j \in 1..Len(run.calls) :
        /\ i < j
        /\ run.calls[i].inp = run.calls[j].inp
        /\ run.calls[i].call = "remove_file"
        /\ run.calls[j].call = "create_file"
        /\ run.calls[i].path = run.calls[j].path
        /\ run.calls[i].l < run.calls[j].l

S4Run == run.inputs = <<S4List>> /\ CleanTree /\ WritesTree

\* C5: scenario S4.  One input with the rename of A to B carrying a hunk and
\* then a patch to B: the second patch takes its preimage from the first
\* one's in-memory result, never from a file, and when the run is over A is
\* gone from the working tree and B holds the second patch's result.
C5_S4RenameThenModify ==
    (S4Run /\ run.state \in {"check", "write", "input", "exit"} /\ run.list # <<>>) =>
        /\ run.list[2].src \in {"unset", "memory"}
        /\ run.list[2].src = "memory" => run.list[2].preimage = run.list[1].result
        /\ Exited =>
              /\ run.status = 0
              /\ run.list[1].src = "disk"
              /\ run.list[2].src = "memory"
              /\ run.list[2].result = S4Result
              /\ ~run.wt["A"].exists
              /\ run.wt["B"] = File(run.list[2].result)

\* the S4 run is over, B written from memory over the renamed file
C5_S4Done ==
    /\ S4Run
    /\ Exited
    /\ run.list[2].src = "memory"
    /\ run.wt["B"] = File(S4Result)
    /\ ~run.wt["A"].exists

\* a --reject run on one input that got as far as writing out
RejectRun ==
    /\ run.given.apply_with_reject
    /\ Len(run.inputs) = 1
    /\ Exited
    /\ run.cause # "check"

HasRejects(patch) == patch.rejected = 0 /\ RejCount(patch.fragments) > 0

\* C6: scenario S6.  With --reject, a patch some of whose hunks cannot be
\* located has its other hunks applied, the failing ones marked rejected and
\* their text written verbatim, in order, after the header line of the
\* reject file named after the patch's path; its result is written out and
\* the run exits with a status that is not zero.
C6_RejectWritesHunks ==
    RejectRun =>
        /\ \A l \in 1..Len(run.list) :
              HasRejects(run.list[l]) =>
                 /\ run.status # 0
                 /\ run.list[l].new_name # ""
                 /\ run.wt[RejName(run.list[l].new_name)]
                       = File(RejHeader(run.list[l].new_name)
                              \o RejBody(run.list[l].fragments, 1))
                 /\ ~run.given.cached
                       => run.wt[run.list[l].new_name] = File(run.list[l].result)
        /\ (run.inputs = <<S6List>> /\ run.list[1].rejected = 0) =>
              /\ [i \in 1..3 |-> run.list[1].fragments[i].rejected] = <<0, 1, 0>>
              /\ run.list[1].result = S6Result
              /\ run.wt["B.rej"] = File(RejHeader("B") \o S6Frags[2].patch)

\* C8: no partial commit.  When a patch fails to apply and --reject is not
\* given, the run exits with status 1, and by then it has created,
\* rewritten or removed no file of the working tree and has not committed
\* the index, however many patches and inputs it was given.
C8_NoPartialCommit ==
    (Exited /\ run.cause = "check") =>
        /\ run.status = 1
        /\ run.fsops = <<>>
        /\ run.wt = run.wt0
        /\ run.index_file = run.index0
        /\ run.lock # "committed"

\* C9: --check is read-only.  Given --check without --apply, alone or with
\* --index, the run creates, rewrites or removes no file of the working
\* tree, takes no index lock and does not write the index.
C9_CheckReadOnly ==
    (run.given.check /\ ~run.given.force_apply) =>
        /\ run.fsops = <<>>
        /\ run.wt = run.wt0
        /\ run.lock = "none"
        /\ run.index_file = run.index0

\* C10: --cached never touches the working tree.  Given --cached, with or
\* without --reject, nothing in the working tree is created, written,
\* renamed or removed; only the index changes.
C10_CachedKeepsWorkingTree ==
    run.given.cached => (run.fsops = <<>> /\ run.wt = run.wt0)
(***************************************************************************)
(* Properties of match_fragment and find_pos, stated on the Locate step:   *)
(* img and st are what find_pos is called with, st' what it leaves.        *)
(***************************************************************************)
\* the bytes of the i-th line (from 1) of an image
LineBytes(image, i) == Sub(image.buf, SumLen(image.line, i - 1), image.line[i].len)

\* the numbers of the lines of an image flagged LINE_COMMON, in order
CommonLines(image) ==
    SelectSeq([i \in 1..nr(image) |-> i], LAMBDA i : image.line[i].flag = LINE_COMMON)

HashesAgreeAt(t) ==
    /\ nr(st.preimage) + t <= nr(img)
    /\ \A i \in 1..nr(st.preimage) : st.preimage.line[i].hash = img.line[t + i].hash

AnchorsAllow(t) ==
    /\ st.match_beginning => t = 0
    /\ st.match_end => nr(st.preimage) + t = nr(img)

ExactAt(t) ==
    LET try == SumLen(img.line, t) IN
    /\ IF st.match_end THEN try + st.preimage.len = img.len
                       ELSE try + st.preimage.len <= img.len
    /\ Sub(img.buf, try, st.preimage.len) = Sub(st.preimage.buf, 0, st.preimage.len)

FuzzEqualAt(t) ==
    \A i \in 1..nr(st.preimage) :
        ws_fix_copy(LineBytes(st.preimage, i)) = ws_fix_copy(LineBytes(img, t + i))

\* a trial position where the line hashes agree but the bytes differ
FuzzCase(t) == HashesAgreeAt(t) /\ AnchorsAllow(t) /\ ~ExactAt(t)

\* the k-th position find_pos tried was the one it accepted
AcceptedAt(k) == st'.state = "found" /\ k = Len(st'.tried)

FuzzAccept ==
    LET pre == st.preimage
        post == st.postimage
        pc_ == CommonLines(pre)
        qc == CommonLines(post)
    IN /\ Sub(st'.preimage.buf, 0, st'.preimage.len)
             = Concat([i \in 1..nr(pre) |-> ws_fix_copy(LineBytes(pre, i))])
       /\ nr(st'.postimage) = nr(post)
       /\ Len(pc_) = Len(qc)
       /\ \A j \in 1..Len(qc) :
             LineBytes(st'.postimage, qc[j]) = ws_fix_copy(LineBytes(pre, pc_[j]))
       /\ \A i \in 1..nr(post) :
             post.line[i].flag # LINE_COMMON =>
                 LineBytes(st'.postimage, i) = LineBytes(post, i)
       /\ st'.postimage.len <= post.len

\* C13: whitespace-fuzz matching.  At a trial position where the line
\* hashes agree but the bytes differ, match_fragment accepts the position
\* if and only if the whitespace policy is fix and every whitespace-fixed
\* preimage line equals the whitespace-fixed target line; on acceptance the
\* preimage becomes the fixed bytes, every COMMON line of the postimage is
\* replaced by the corresponding fixed preimage line, and the postimage's
\* total length does not grow.
C13_FuzzStep ==
    pc = "locate" =>
        /\ \A k \in 1..Len(st'.tried) :
              FuzzCase(st'.tried[k]) =>
                  (AcceptedAt(k) <=> (glob.ws_error_action = correct_ws_error
                                      /\ FuzzEqualAt(st'.tried[k])))
        /\ (st'.state = "found" /\ FuzzCase(st'.applied_pos)) => FuzzAccept

C13_WhitespaceFuzz == [][C13_FuzzStep]_vars

\* match_fragment accepts the trial position t
MatchesAt(t) ==
    /\ HashesAgreeAt(t) /\ AnchorsAllow(t)
    /\ \/ ExactAt(t)
       \/ glob.ws_error_action = correct_ws_error /\ FuzzEqualAt(t)

\* the line find_pos starts from: the first position it tried
Anchor == st'.tried[1]

\* the place of line q in the search from line a: a, a-1, a+1, a-2, a+2, ...
BackwardsFirst(q, a) ==
    IF q = a THEN 0 ELSE IF q < a THEN 2 * (a - q) - 1 ELSE 2 * (q - a)

\* the same for the search a, a+1, a-1, a+2, a-2, ...
ForwardsFirst(q, a) ==
    IF q = a THEN 0 ELSE IF q > a THEN 2 * (q - a) - 1 ELSE 2 * (a - q)

\* find_pos has returned the first position that matches, or -1 after a
\* trial of every line from 0 to the number of lines of the image
FirstMatchReturned ==
    /\ \A k \in 1..Len(st'.tried) : MatchesAt(st'.tried[k]) <=> AcceptedAt(k)
    /\ st'.applied_pos = IF \E k \in 1..Len(st'.tried) : AcceptedAt(k)
                         THEN st'.tried[Len(st'.tried)] ELSE -1
    /\ st'.applied_pos < 0 => Len(st'.tried) = nr(img) + 1

\* C18 as claimed: find_pos tries the lines in the order anchor, anchor-1,
\* anchor+1, anchor-2, anchor+2, ..., a side that has run out of lines
\* being skipped, and returns the first that matches; so of two matches at
\* anchor-k and anchor+k with none closer, anchor-k is returned.
C18_BackwardsStep ==
    (pc = "locate" /\ st'.tried # <<>>) =>
        /\ \A k \in 1..Len(st'.tried) :
              k - 1 = Cardinality({q \in 0..nr(img) :
                          BackwardsFirst(q, Anchor)
                              < BackwardsFirst(st'.tried[k], Anchor)})
        /\ FirstMatchReturned
        /\ \A d \in 1..nr(img) :
              (/\ Anchor - d >= 0 /\ MatchesAt(Anchor - d) /\ MatchesAt(Anchor + d)
               /\ \A e \in 0..(d - 1) :
                     ~MatchesAt(Anchor + e) /\ (Anchor - e >= 0 => ~MatchesAt(Anchor - e)))
                  => st'.applied_pos = Anchor - d

C18_BackwardsFirstOrder == [][C18_BackwardsStep]_vars

\* C18 as the code has it: the order is anchor, anchor+1, anchor-1,
\* anchor+2, anchor-2, ..., a side that has run out of lines being
\* skipped; the first line that matches is returned; of two matches at
\* anchor-k and anchor+k with none closer, anchor+k is returned.
C18_ForwardsStep ==
    (pc = "locate" /\ st'.tried # <<>>) =>
        /\ \A k \in 1..Len(st'.tried) :
              k - 1 = Cardinality({q \in 0..nr(img) :
                          ForwardsFirst(q, Anchor)
                              < ForwardsFirst(st'.tried[k], Anchor)})
        /\ FirstMatchReturned
        /\ \A d \in 1..nr(img) :
              (/\ Anchor - d >= 0 /\ MatchesAt(Anchor - d) /\ MatchesAt(Anchor + d)
               /\ \A e \in 0..(d - 1) :
                     ~MatchesAt(Anchor + e) /\ (Anchor - e >= 0 => ~MatchesAt(Anchor - e)))
                  => st'.applied_pos = Anchor + d

C18_SearchOrder == [][C18_ForwardsStep]_vars

\* find_pos has returned the line after the anchor although the preimage is
\* at the line before the anchor too
C18_TieGoesForwards ==
    /\ pc = "found" /\ Len(st.tried) = 2 /\ st.tried[1] >= 1
    /\ st.applied_pos = st.tried[1] + 1
    /\ ~st.match_beginning /\ ~st.match_end
    /\ nr(st.preimage) >= 1
    /\ Sub(img.buf, SumLen(img.line, st.tried[1] - 1), st.preimage.len)
          = Sub(st.preimage.buf, 0, st.preimage.len)
    /\ Sub(img.buf, SumLen(img.line, st.tried[1] + 1), st.preimage.len)
          = Sub(st.preimage.buf, 0, st.preimage.len)

\* apply_one_fragment sets the two flags from the header of the hunk and
\* from its trailing context
FlagsAsComputed ==
    (pc = "frag" /\ st'.state = "locate") =>
        /\ st'.match_beginning
              = (frags[fi].oldpos = 0
                 \/ (frags[fi].oldpos = 1 /\ ~glob.unidiff_zero))
        /\ st'.match_end = (~glob.unidiff_zero /\ frags[fi].trailing = 0)

\* a hunk found while a flag holds is found at that end of the image, by
\* lines
FoundAtTheEnds ==
    (pc = "locate" /\ st'.state = "found") =>
        /\ st.match_beginning => st'.applied_pos = 0
        /\ st.match_end => st'.applied_pos + nr(st.preimage) = nr(img)

\* the bytes of the preimage end where those of the image do
EndsWithImage(pre) == SumLen(img.line, st'.applied_pos) + pre.len = img.len

\* C19 as claimed: match_beginning is exactly (old_pos == 0 or (old_pos == 1
\* and not unidiff_zero)), match_end exactly (not unidiff_zero and no
\* trailing context); while match_beginning holds a hunk is accepted only
\* at line 0, and while match_end holds only at a line P with
\* P + preimage.nr == img.nr and with the bytes of the preimage (as the
\* hunk gave them, or as the match left them) ending exactly at the end of
\* the image buffer.
C19_ExactEndStep ==
    /\ FlagsAsComputed
    /\ FoundAtTheEnds
    /\ (pc = "locate" /\ st'.state = "found" /\ st.match_end) =>
          (EndsWithImage(st.preimage) \/ EndsWithImage(st'.preimage))

C19_BytesEndAtEnd == [][C19_ExactEndStep]_vars

\* C19 as the code has it: the same, but the bytes of the preimage end at
\* the end of the image buffer when the hunk matched byte for byte; a hunk
\* accepted by the whitespace-fixing comparison is at the last lines of the
\* image, and its bytes need not have their length.
C19_AnchorStep ==
    /\ FlagsAsComputed
    /\ FoundAtTheEnds
    /\ (pc = "locate" /\ st'.state = "found" /\ st.match_end) =>
          \/ /\ EndsWithImage(st.preimage)
             /\ Sub(img.buf, SumLen(img.line, st'.applied_pos), st.preimage.len)
                   = Sub(st.preimage.buf, 0, st.preimage.len)
          \/ /\ glob.ws_error_action = correct_ws_error
             /\ FuzzEqualAt(st'.applied_pos)

C19_EndAnchoring == [][C19_AnchorStep]_vars

\* a hunk that has to match at both ends has been found there, byte for
\* byte, in an image that has other lines it matches
C19_FoundAtEnd ==
    /\ pc = "found" /\ st.match_end /\ ~st.match_beginning
    /\ nr(st.preimage) >= 1 /\ st.applied_pos >= 2
    /\ st.applied_pos + nr(st.preimage) = nr(img)
    /\ SumLen(img.line, st.applied_pos) + st.preimage.len = img.len
    /\ Sub(img.buf, 0, st.preimage.len) = Sub(st.preimage.buf, 0, st.preimage.len)

\* the image new is the image old without its first df and its last dl
\* lines
Sheared(new, old, df, dl) ==
    LET first == IF df = 1 THEN old.line[1].len ELSE 0
        last == IF dl = 1 THEN old.line[nr(old)].len ELSE 0
    IN /\ nr(old) >= df + dl
       /\ ~new.wrapped
       /\ new.line = SubSeq(old.line, 1 + df, nr(old) - dl)
       /\ new.len = old.len - first - last
       /\ ImageBytes(new) = Sub(old.buf, first, old.len - first - last)

\* the locate loop goes round again: the flags are dropped, or, with no
\* flag to drop, the first df and last dl lines of context
Retried(df, dl) ==
    IF st.match_beginning \/ st.match_end
    THEN /\ ~st'.match_beginning /\ ~st'.match_end
         /\ st'.leading = st.leading /\ st'.trailing = st.trailing
         /\ st'.pos = st.pos
         /\ st'.preimage = st.preimage /\ st'.postimage = st.postimage
    ELSE /\ st'.leading = st.leading - df
         /\ st'.trailing = st.trailing - dl
         /\ st'.pos = st.pos - df
         /\ Sheared(st'.preimage, st.preimage, df, dl)
         /\ Sheared(st'.postimage, st.postimage, df, dl)

\* C20: the context is reduced only while leading > p_context or
\* trailing > p_context, and each reduction shrinks whichever of leading
\* and trailing is larger by one line (both of them when they are equal, as
\* the comment at lines 2063-2067 has it), that line removed from preimage
\* and postimage (the first for leading, the last for trailing) and the
\* anchor adjusted, before the search is retried.  (A search that fails
\* with match_beginning or match_end set is first retried with the two
\* flags dropped and the context as it was.)
C20_ReductionStep ==
    (pc = "locate" /\ st'.state = "locate") =>
        /\ st.leading > glob.p_context \/ st.trailing > glob.p_context
        /\ Retried(IF st.leading >= st.trailing THEN 1 ELSE 0,
                   IF st.trailing >= st.leading THEN 1 ELSE 0)

C20_ContextReduction == [][C20_ReductionStep]_vars

\* the same for the hunks that have a line to add or to remove, whose
\* leading and trailing context are different lines
C20_ReductionOfChanges ==
    [][(\E i \in 1..nr(st.preimage) : st.preimage.line[i].flag # LINE_COMMON)
       \/ (\E i \in 1..nr(st.postimage) : st.postimage.line[i].flag # LINE_COMMON)
          => C20_ReductionStep]_vars

\* C21 as claimed: in the locate loop match_beginning and match_end are
\* cleared (once, with a retry before any context line is removed) only
\* when both are set; a hunk with only one of the two flags set keeps it
\* through all the retries.
C21_BothFlagsStep ==
    (pc = "locate" /\ st'.state = "locate") =>
        IF st.match_beginning /\ st.match_end
        THEN /\ ~st'.match_beginning /\ ~st'.match_end
             /\ st'.leading = st.leading /\ st'.trailing = st.trailing
             /\ st'.preimage = st.preimage /\ st'.postimage = st.postimage
        ELSE /\ st'.match_beginning = st.match_beginning
             /\ st'.match_end = st.match_end

C21_ClearedOnlyWhenBoth == [][C21_BothFlagsStep]_vars

\* C21 as the code has it: a search that fails above the context limit with
\* either flag set clears both flags and is retried with the context as it
\* was; no context line is removed while a flag is set, no flag is ever set
\* again, and a search that ends the loop leaves the flags as they were.
C21_EitherFlagStep ==
    pc = "locate" =>
        /\ st'.match_beginning => st.match_beginning
        /\ st'.match_end => st.match_end
        /\ st'.state = "locate" =>
              IF st.match_beginning \/ st.match_end
              THEN /\ ~st'.match_beginning /\ ~st'.match_end
                   /\ st'.leading = st.leading /\ st'.trailing = st.trailing
                   /\ st'.pos = st.pos
                   /\ st'.preimage = st.preimage /\ st'.postimage = st.postimage
              ELSE st'.leading + st'.trailing < st.leading + st.trailing
        /\ st'.state # "locate" =>
              /\ st'.match_beginning = st.match_beginning
              /\ st'.match_end = st.match_end

C21_FlagsDropped == [][C21_EitherFlagStep]_vars

\* a hunk that had to match at the beginning only, having trailing context,
\* is about to be searched for again with no flag and its context whole
C21_OneFlagDropped ==
    /\ pc = "locate" /\ st.tried # <<>>
    /\ ~st.match_beginning /\ ~st.match_end
    /\ frags[fi].oldpos = 1 /\ ~glob.unidiff_zero /\ frags[fi].trailing > 0
    /\ st.leading = frags[fi].leading /\ st.trailing = frags[fi].trailing

\* apply_one_fragment, called on the image and the hunk of this state,
\* fails and returns the image as it was given
FailsWithoutEffect ==
    LET failed(r) == r.ret # 0 /\ r.img = img /\ ~r.overrun
    IN failed(apply_one_fragment(img, frags[fi], glob.inaccurate_eof, glob))

\* apply_fragments, called on the file and the hunks the run began with,
\* ends as the run has: same return, same image, same hunks rejected
EndsAsOneCall ==
    LET same(r) ==
            /\ r.ret = (IF pc = "failed" THEN -1 ELSE 0)
            /\ r.img = img
            /\ r.frags = frags
    IN same(apply_fragments(prepare_image(hist.F, Len(hist.F), TRUE),
                            [i \in 1..Len(frags) |-> [frags[i] EXCEPT !.rejected = 0]],
                            glob.inaccurate_eof, glob))

C22_FailedHunkState ==
    /\ pc = "notfound" => FailsWithoutEffect
    /\ (Finished /\ hist.round = "forward") => EndsAsOneCall

C22_FailedHunkStep ==
    /\ img' # img => pc \in {"found", "done"}
    /\ pc = "notfound" =>
          IF glob.apply_with_reject
          THEN /\ frags' = [frags EXCEPT ![fi].rejected = 1]
               /\ fi' = fi + 1
               /\ pc' = IF fi < Len(frags) THEN "frag" ELSE "done"
          ELSE pc' = "failed" /\ frags' = frags
    /\ pc # "failed"

\* C22: a failed hunk has no effect.  When apply_one_fragment fails to
\* locate a hunk the image (buffer, length, line table) is as before the
\* call; under apply_with_reject the hunk is marked rejected and the next
\* hunk is applied to the image the last successful hunk left; without it
\* the patch fails at the first failing hunk and no later hunk is tried.
C22_FailedHunkNoEffect == [] C22_FailedHunkState /\ [][C22_FailedHunkStep]_vars

\* under --reject the third hunk of S6 has been applied to the image the
\* first one left, the second one rejected
C22_AppliedAfterReject ==
    /\ hist.kind = "s6" /\ pc = "done" /\ glob.apply_with_reject
    /\ frags[1].rejected = 0 /\ frags[2].rejected = 1 /\ frags[3].rejected = 0
    /\ ImageBytes(img) = S6Result

(***************************************************************************)
(* parse_binary_hunk on what may follow "GIT binary patch": a method line  *)
(* and up to MaxBinaryLines lines of base-85 data, blank lines and lines   *)
(* that are neither.  The bytes behind the end of the input are the SLOP   *)
(* zero bytes read_patch_file appends; the method lines used are shorter   *)
(* than SLOP.                                                              *)
(***************************************************************************)
MaxBinaryLines == 3   \* lines after the method line

Upper ==
    <<"A", "B", "C", "D", "E", "F", "G", "H", "I", "J", "K", "L", "M",
      "N", "O", "P", "Q", "R", "S", "T", "U", "V", "W", "X", "Y", "Z">>

Lower ==
    <<"a", "b", "c", "d", "e", "f", "g", "h", "i", "j", "k", "l", "m",
      "n", "o", "p", "q", "r", "s", "t", "u", "v", "w", "x", "y", "z">>

\* the base-85 alphabet of base85.c, but for the grave accent, which no
\* input here holds
en85 ==
    {Upper[i] : i \in 1..26} \cup {Lower[i] : i \in 1..26}
    \cup {"0", "1", "2", "3", "4", "5", "6", "7", "8", "9"}
    \cup {"!", "#", "$", "%", "&", "(", ")", "*", "+", "-", ";", "<", "=",
          ">", "?", "@", "^", "_", "{", "|", "}", "~"}

\* linelen(buffer + off, size): at most size bytes are looked at
RECURSIVE linelen_sized(_, _, _, _)
linelen_sized(buffer, off, size, len) ==
    IF len = size THEN len
    ELSE IF Sub(buffer, off + len, 1)[1] = NL THEN len + 1
    ELSE linelen_sized(buffer, off, size, len + 1)

\* lines 1348-1355: the length byte; 0 stands for the jump to corrupt
byte_length_of(c) ==
    IF \E i \in 1..26 : Upper[i] = c
    THEN CHOOSE i \in 1..26 : Upper[i] = c
    ELSE IF \E i \in 1..26 : Lower[i] = c
    THEN 26 + CHOOSE i \in 1..26 : Lower[i] = c
    ELSE 0

\* decode_85(dst, buffer, len) of base85.c: the groups of five digits that
\* hold len bytes are read; a byte outside the alphabet is an error.  The
\* digits used here are "0", so no group exceeds 32 bits.
decode_85(digits, len) ==
    IF \A i \in 1..(5 * ((len + 3) \div 4)) : i <= Len(digits) /\ digits[i] \in en85
    THEN 0 ELSE -1

\* lines 1343-1364 without the lower bound of lines 1360-1361
binary_line_any_filler(buffer, off, llen) ==
    LET max_byte_length == ((llen - 2) \div 5) * 4
        byte_length == byte_length_of(Sub(buffer, off, 1)[1])
    IN IF llen < 7 \/ (llen - 2) % 5 # 0 THEN 0
       ELSE IF byte_length = 0 THEN 0
       ELSE IF max_byte_length < byte_length THEN 0
       ELSE IF decode_85(Sub(buffer, off + 1, llen - 2), byte_length) # 0 THEN 0
       ELSE byte_length

\* lines 1343-1364: the checks of one data line; the bytes it holds, or 0
\* for the jump to corrupt
binary_line(buffer, off, llen) ==
    LET max_byte_length == ((llen - 2) \div 5) * 4
        byte_length == byte_length_of(Sub(buffer, off, 1)[1])
    IN IF llen < 7 \/ (llen - 2) % 5 # 0 THEN 0
       ELSE IF byte_length = 0 THEN 0
       ELSE IF max_byte_length < byte_length \/ byte_length <= max_byte_length - 4
       THEN 0
       ELSE IF decode_85(Sub(buffer, off + 1, llen - 2), byte_length) # 0 THEN 0
       ELSE byte_length

\* lines 1329-1368: the loop over the lines after the method line
RECURSIVE binary_lines(_, _, _, _, _)
binary_lines(buffer, off, size, used, hunk_size) ==
    LET next(llen) ==
            IF llen = 1
            THEN [corrupt |-> FALSE, off |-> off + 1, size |-> size - 1,
                  used |-> used + llen, hunk_size |-> hunk_size]
            ELSE IF binary_line(buffer, off, llen) = 0
            THEN [corrupt |-> TRUE, off |-> off, size |-> size,
                  used |-> used + llen, hunk_size |-> hunk_size]
            ELSE binary_lines(buffer, off + llen, size - llen, used + llen,
                              hunk_size + binary_line(buffer, off, llen))
    IN next(linelen_sized(buffer, off, size, 0))

NoBinaryHunk ==
    [frag |-> FALSE, status |-> 0, method |-> "none", off |-> 0, size |-> 0,
     used |-> 0, hunk_size |-> 0]

\* lines 1285-1388; size is not advanced over the method line (line 1328
\* advances buffer alone).  inflates is what inflate_it makes of the data.
parse_binary_hunk(buffer, size, inflates) ==
    LET llen == linelen_sized(buffer, 0, size, 0)
        method == IF Sub(buffer, 0, 6) = <<"d", "e", "l", "t", "a", SP>>
                  THEN "delta"
                  ELSE IF Sub(buffer, 0, 8) = <<"l", "i", "t", "e", "r", "a", "l", SP>>
                  THEN "literal"
                  ELSE "none"
        done(b) ==
            IF b.corrupt \/ ~inflates
            THEN [NoBinaryHunk EXCEPT !.status = -1, !.method = method]
            ELSE [frag |-> TRUE, status |-> 0, method |-> method, off |-> b.off,
                  size |-> b.size, used |-> b.used, hunk_size |-> b.hunk_size]
    IN IF method = "none" THEN NoBinaryHunk
       ELSE done(binary_lines(buffer, llen, size, llen, 0))

Digits(n) == [i \in 1..n |-> "0"]

\* data lines at and around each of the checks, a blank line, a line with a
\* byte outside the alphabet, and a last line that lacks its newline
BinaryLines ==
    {<<"A">> \o Digits(5) \o <<NL>>, <<"D">> \o Digits(5) \o <<NL>>,
     <<"E">> \o Digits(5) \o <<NL>>, <<"E">> \o Digits(10) \o <<NL>>,
     <<"D">> \o Digits(10) \o <<NL>>, <<"A">> \o Digits(4) \o <<NL>>,
     <<"A">> \o Digits(6) \o <<NL>>, <<"@">> \o Digits(5) \o <<NL>>,
     <<"a">> \o Digits(35) \o <<NL>>, <<"z">> \o Digits(65) \o <<NL>>,
     <<NL>>, <<"A", SP>> \o Digits(4) \o <<NL>>}

BinaryTexts ==
    LET whole == UNION {[1..n -> BinaryLines] : n \in 0..MaxBinaryLines}
    IN whole \cup {Append(t, <<"L">> \o Digits(6)) :
                      t \in {w \in whole : Len(w) < MaxBinaryLines}}

MethodLines ==
    {<<"d", "e", "l", "t", "a", SP, "1", NL>>,
     <<"l", "i", "t", "e", "r", "a", "l", SP, "1", NL>>,
     <<"d", "i", "f", "f", SP, NL>>}

BinaryHunkInit ==
    /\ \E m \in MethodLines, t \in BinaryTexts, z \in BOOLEAN :
          run = [state |-> "binary_text", method |-> m, lines |-> t,
                 inflates |-> z, hunk |-> NoBinaryHunk]
    /\ glob = DefaultGlob
    /\ img = EmptyImage
    /\ frags = <<>>
    /\ fi = 1
    /\ pc = "run"
    /\ st = NoLocals
    /\ hist = [kind |-> "binary_hunk"]

\* parse_binary, the first call of parse_binary_hunk
ParseBinaryHunk ==
    /\ run.state = "binary_text"
    /\ run' = [run EXCEPT !.state = "binary_parsed",
                          !.hunk = parse_binary_hunk(
                                       run.method \o Concat(run.lines),
                                       Len(run.method \o Concat(run.lines)),
                                       run.inflates)]
    /\ UNCHANGED <<glob, img, frags, fi, pc, st, hist>>

(***************************************************************************)
(* parse_git_header on the lines after "diff --git a/f b/f": up to         *)
(* MaxHeaderLines lines, each handled by the function optable names for    *)
(* it.  A name is a sequence of bytes, Null the null pointer.  The lines   *)
(* hold no blanks and no quotes and --directory is not given, p_value is   *)
(* the default.                                                            *)
(***************************************************************************)
MaxHeaderLines == 3   \* lines after the "diff --git" line

Null == <<>>

p_value == 1

\* find_name(line, NULL, p, TERM_TAB), lines 375-412, on a line that ends
\* in a newline: i bytes have been read, the name starts behind start
RECURSIVE find_name_from(_, _, _, _)
find_name_from(line, i, start, p) ==
    IF line[i + 1] = NL
    THEN (IF i - start = 0 THEN Null ELSE SubSeq(line, start + 1, i))
    ELSE IF line[i + 1] = "/"
    THEN find_name_from(line, i + 1, IF p - 1 = 0 THEN i + 1 ELSE start, p - 1)
    ELSE find_name_from(line, i + 1, start, p)

find_name(line, p) == find_name_from(line, 0, 0, p)

\* lines 516-541; die is the message of the die() reached, "" for none
gitdiff_verify_name(line, isnull, orig_name) ==
    IF orig_name = Null /\ ~isnull
    THEN [name |-> find_name(line, p_value), die |-> ""]
    ELSE IF orig_name # Null
    THEN (IF isnull
          THEN [name |-> orig_name, die |-> "expected /dev/null, got"]
          ELSE LET check(another) ==
                       IF another = Null \/ Sub(another, 0, Len(orig_name)) # orig_name
                       THEN [name |-> orig_name, die |-> "inconsistent filename"]
                       ELSE [name |-> orig_name, die |-> ""]
               IN check(find_name(line, p_value)))
    ELSE IF Sub(line, 0, 10) # <<"/", "d", "e", "v", "/", "n", "u", "l", "l", NL>>
    THEN [name |-> Null, die |-> "expected /dev/null"]
    ELSE [name |-> Null, die |-> ""]

\* the functions of optable, lines 543-611, on the line behind its prefix
gitdiff_line(l, patch) ==
    LET verified(side, v) ==
            [patch |-> IF side = "old" THEN [patch EXCEPT !.old_name = v.name]
                       ELSE [patch EXCEPT !.new_name = v.name],
             die |-> v.die]
        stored(p) == [patch |-> p, die |-> ""]
    IN CASE l.op = "--- " ->
               verified("old", gitdiff_verify_name(l.arg, patch.is_new, patch.old_name))
         [] l.op = "+++ " ->
               verified("new", gitdiff_verify_name(l.arg, patch.is_delete, patch.new_name))
         [] l.op = "deleted file mode " ->
               stored([patch EXCEPT !.is_delete = TRUE, !.old_name = patch.def_name])
         [] l.op = "new file mode " ->
               stored([patch EXCEPT !.is_new = TRUE, !.new_name = patch.def_name])
         [] l.op = "copy from " ->
               stored([patch EXCEPT !.is_copy = TRUE, !.old_name = find_name(l.arg, 0)])
         [] l.op = "copy to " ->
               stored([patch EXCEPT !.is_copy = TRUE, !.new_name = find_name(l.arg, 0)])
         [] l.op = "rename from " ->
               stored([patch EXCEPT !.is_rename = TRUE, !.old_name = find_name(l.arg, 0)])
         [] l.op = "rename to " ->
               stored([patch EXCEPT !.is_rename = TRUE, !.new_name = find_name(l.arg, 0)])

HeaderNames == {<<"f">>, <<"f", "o">>, <<"g">>}

HeaderLines ==
    {[op |-> o, arg |-> <<"a", "/">> \o n \o <<NL>>] :
        o \in {"--- ", "+++ "}, n \in HeaderNames}
    \cup {[op |-> o, arg |-> <<"/", "d", "e", "v", "/", "n", "u", "l", "l", NL>>] :
             o \in {"--- ", "+++ "}}
    \cup {[op |-> o, arg |-> n \o <<NL>>] :
             o \in {"rename from ", "rename to ", "copy from ", "copy to "},
             n \in {<<"f">>, <<"f", "o">>}}
    \cup {[op |-> o, arg |-> <<"1", "0", "0", "6", "4", "4", NL>>] :
             o \in {"deleted file mode ", "new file mode "}}

\* parse_git_header, lines 815-832: "diff --git a/f b/f" has been read
GitHeaderInit ==
    /\ \E t \in UNION {[1..n -> HeaderLines] : n \in 1..MaxHeaderLines} :
          run = [state |-> "git_header", lines |-> t, k |-> 1, die |-> "",
                 patch |-> [def_name |-> <<"f">>, old_name |-> Null,
                            new_name |-> Null, is_new |-> FALSE,
                            is_delete |-> FALSE, is_rename |-> FALSE,
                            is_copy |-> FALSE]]
    /\ glob = DefaultGlob
    /\ img = EmptyImage
    /\ frags = <<>>
    /\ fi = 1
    /\ pc = "run"
    /\ st = NoLocals
    /\ hist = [kind |-> "git_header"]

\* parse_git_header, lines 836-874: one turn of the loop over the lines
GitHeaderLine ==
    /\ run.state = "git_header"
    /\ run.die = ""
    /\ run.k <= Len(run.lines)
    /\ LET done(r) == [run EXCEPT !.k = @ + 1, !.patch = r.patch, !.die = r.die]
       IN run' = done(gitdiff_line(run.lines[run.k], run.patch))
    /\ UNCHANGED <<glob, img, frags, fi, pc, st, hist>>

(***************************************************************************)
(* parse_fragment on what may follow a "@@" line: up to MaxBodyLines lines *)
(* of a hunk body, of garbage, or an incomplete last line, under every     *)
(* pair of counts up to MaxDeclared the "@@" line may declare.             *)
(***************************************************************************)
MaxBodyLines == 3   \* lines of text after the "@@" line

MaxDeclared == 3    \* the line counts the "@@" line declares, 0..MaxDeclared

\* a context line, a '-' line, a '+' line, the "\ No newline" marker, a
\* '\' line too short to be one, the first line of what follows the patch
TextLines ==
    {<<SP, "a", NL>>, <<"-", "a", NL>>, <<"+", "b", NL>>, NoNewline,
     <<BSL, SP, NL>>, <<"d", NL>>}

\* the texts: whole lines, with or without an incomplete '+' line at the end
Texts ==
    LET whole == UNION {[1..n -> TextLines] : n \in 0..MaxBodyLines}
    IN whole \cup {Append(t, <<"+", "b">>) : t \in {w \in whole : Len(w) < MaxBodyLines}}

ParseInit ==
    /\ \E t \in Texts, o \in 0..MaxDeclared, n \in 0..MaxDeclared :
          run = [state |-> "text", lines |-> t, oldlines |-> o, newlines |-> n,
                 c |-> parse_body(<<>>, 0,
                           [oldlines |-> 0, newlines |-> 0, leading |-> 0,
                            trailing |-> 0, added |-> 0, deleted |-> 0, wsadd |-> 0,
                            wsdel |-> 0, ret |-> 0])]
    /\ glob = DefaultGlob
    /\ img = EmptyImage
    /\ frags = <<>>
    /\ fi = 1
    /\ pc = "run"
    /\ st = NoLocals
    /\ hist = [kind |-> "parse"]

\* parse_single_patch, lines 1205-1208: the call of parse_fragment
ParseFragment ==
    /\ run.state = "text"
    /\ run' = [run EXCEPT !.state = "parsed",
                          !.c = parse_fragment(Concat(run.lines), run.oldlines,
                                               run.newlines)]
    /\ UNCHANGED <<glob, img, frags, fi, pc, st, hist>>

ParseNext == ParseFragment \/ ParseBinaryHunk \/ GitHeaderLine

ParseSpec == (ParseInit \/ BinaryHunkInit \/ GitHeaderInit) /\ [][ParseNext]_vars

\* a line parse_fragment takes for a line of a hunk body
IsBodyLine(l) ==
    /\ l[Len(l)] = NL
    /\ \/ l[1] \in {SP, NL, "-", "+"}
       \/ l[1] = BSL /\ Len(l) >= 12 /\ l[2] = SP

\* the lines of the old and of the new side among the first k
OldSide(k) == Cardinality({i \in 1..k : run.lines[i][1] \in {SP, NL, "-"}})

NewSide(k) == Cardinality({i \in 1..k : run.lines[i][1] \in {SP, NL, "+"}})

\* the first k lines are body lines and hold the lines the "@@" line
\* declares, on both sides
CompleteAt(k) ==
    /\ \A i \in 1..k : IsBodyLine(run.lines[i])
    /\ OldSide(k) = run.oldlines
    /\ NewSide(k) = run.newlines

\* the number of bytes of the first k lines
BytesOf(k) == Len(Concat(SubSeq(run.lines, 1, k)))

\* the body lines the text begins with: up to its first line that is none
BodyEnd ==
    CHOOSE k \in 0..Len(run.lines) :
        /\ \A i \in 1..k : IsBodyLine(run.lines[i])
        /\ k < Len(run.lines) => ~IsBodyLine(run.lines[k + 1])

Accepted == run.c.ret >= 0

\* parse_fragment accepts exactly when both counters reach zero at the same
\* line, and then reads no further, but for one '\' line
AcceptedWhenComplete ==
    /\ Accepted <=> \E k \in 0..Len(run.lines) : CompleteAt(k)
    /\ Accepted =>
          \E k \in 0..Len(run.lines) :
              /\ CompleteAt(k)
              /\ \A j \in 0..(k - 1) : ~CompleteAt(j)
              /\ \/ run.c.ret = BytesOf(k)
                 \/ /\ k < Len(run.lines) /\ run.lines[k + 1][1] = BSL
                    /\ run.c.ret = BytesOf(k + 1)

\* C23 as claimed: without --recount parse_fragment accepts a hunk only if
\* the declared old_lines and new_lines counters reach zero at the same
\* line (context lines count on both sides, '-' on the old, '+' on the new,
\* '\' lines on neither), and a body in which one side has more or fewer
\* lines than declared is rejected.
C23_CountsAgreeWithBody ==
    run.state = "parsed" =>
        /\ AcceptedWhenComplete
        /\ (OldSide(BodyEnd) # run.oldlines \/ NewSide(BodyEnd) # run.newlines)
              => ~Accepted

\* C23 as the code has it: the hunk is accepted exactly when the counters
\* reach zero at the same line; a side with fewer lines than declared, or
\* with more before the other side is complete, is rejected; the hunk ends
\* where the counters reach zero, and the body lines that follow are not
\* counted: they do not make the hunk corrupt.
C23_CountsReachZero ==
    run.state = "parsed" =>
        /\ AcceptedWhenComplete
        /\ (OldSide(BodyEnd) < run.oldlines \/ NewSide(BodyEnd) < run.newlines)
              => ~Accepted
        /\ (\E k \in 1..BodyEnd : OldSide(k) > run.oldlines /\ NewSide(k) < run.newlines)
              => ~Accepted
        /\ (\E k \in 1..BodyEnd : NewSide(k) > run.newlines /\ OldSide(k) < run.oldlines)
              => ~Accepted

\* a hunk of one line removed and one added has been accepted with a third
\* line, added, behind it
C23_ExtraLineAccepted ==
    /\ run.state = "parsed" /\ Accepted
    /\ run.oldlines = 1 /\ run.newlines = 1
    /\ run.lines = <<<<"-", "a", NL>>, <<"+", "b", NL>>, <<"+", "b", NL>>>>
    /\ run.c.ret = BytesOf(2)

Min(a, b) == IF a <= b THEN a ELSE b

\* C24: every text hunk parse_fragment accepts has
\* leading + trailing <= min(old_lines, new_lines), context lines counted
\* once; this includes the hunks whose body has context lines only.
C24_ContextWithinCounts ==
    (run.state = "parsed" /\ Accepted) =>
        run.c.leading + run.c.trailing <= Min(run.oldlines, run.newlines)

\* what holds of the accepted hunks that add or remove a line
C24_ContextOfChanges ==
    (run.state = "parsed" /\ Accepted /\ run.c.added + run.c.deleted > 0) =>
        run.c.leading + run.c.trailing <= Min(run.oldlines, run.newlines)

\* the length a length byte stands for: 'A'..'Z' are 1..26, 'a'..'z' are
\* 27..52; 0 for any other byte
Letters == Upper \o Lower

LengthByte(c) ==
    IF \E n \in 1..52 : Letters[n] = c
    THEN CHOOSE n \in 1..52 : Letters[n] = c ELSE 0

\* a line of length llen, the newline included, as the data lines must be
IsDataLine(l) ==
    LET llen == Len(l)
        max == (4 * (llen - 2)) \div 5
    IN /\ l[llen] = NL
       /\ llen >= 7
       /\ (llen - 2) % 5 = 0
       /\ LengthByte(l[1]) > 0
       /\ max - 3 <= LengthByte(l[1])
       /\ LengthByte(l[1]) <= max

\* the lines before the first blank line, all of them without one
HunkLines ==
    IF \E i \in 1..Len(run.lines) : run.lines[i] = <<NL>>
    THEN (CHOOSE i \in 1..Len(run.lines) :
             /\ run.lines[i] = <<NL>>
             /\ \A j \in 1..(i - 1) : run.lines[j] # <<NL>>) - 1
    ELSE Len(run.lines)

HunkParsed == run.state = "binary_parsed" /\ run.hunk.method # "none"

\* C25: parse_binary_hunk accepts a data line of length llen (the newline
\* included) only if llen >= 7, llen - 2 is a multiple of 5, the first byte
\* is in 'A'..'Z' (1..26) or 'a'..'z' (27..52), and max - 3 <= byte_length
\* <= max with max = 4 * (llen - 2) / 5; any other line but the terminating
\* blank line makes the hunk corrupt.
C25_DataLineValidation ==
    HunkParsed =>
        /\ run.hunk.frag =>
              /\ HunkLines < Len(run.lines)
              /\ \A i \in 1..HunkLines : IsDataLine(run.lines[i])
              /\ run.hunk.hunk_size =
                    Len(Concat([i \in 1..HunkLines |-> Digits(LengthByte(run.lines[i][1]))]))
        /\ (\E i \in 1..HunkLines : ~IsDataLine(run.lines[i]))
              => (~run.hunk.frag /\ run.hunk.status = -1)

\* a hunk of two data lines, of five bytes in two groups and of 52 bytes,
\* has been accepted
C25_TwoLinesAccepted ==
    /\ HunkParsed /\ run.hunk.frag
    /\ run.lines = << <<"E">> \o Digits(10) \o <<NL>>,
                      <<"z">> \o Digits(65) \o <<NL>>, <<NL>> >>
    /\ run.hunk.hunk_size = 57

\* the header line a step of parse_git_header handles, the name it gives
\* behind "a/" or "b/", and the name stored for its side
HeaderLine == run.lines[run.k]

Supplied == SubSeq(HeaderLine.arg, 3, Len(HeaderLine.arg) - 1)

StoredName ==
    IF HeaderLine.op = "--- " THEN run.patch.old_name ELSE run.patch.new_name

\* a "--- " or "+++ " line with a filename is handled while a name of its
\* side is stored
NameChecked ==
    /\ run.state = "git_header" /\ run'.k = run.k + 1
    /\ HeaderLine.op \in {"--- ", "+++ "}
    /\ HeaderLine.arg[1] # "/"
    /\ StoredName # Null

IsPrefix(s, t) == Len(s) <= Len(t) /\ SubSeq(t, 1, Len(s)) = s

C26_CrossCheckStep == (NameChecked /\ Supplied # StoredName) => run'.die # ""

\* C26: whenever a "--- " or "+++ " line of a "diff --git" header supplies
\* a filename and a name for that side was stored by an earlier header
\* line, the parse is fatal unless the two names are equal; any differing
\* name, one that merely extends the stored name included, is rejected.
C26_NameCrossCheck == [][C26_CrossCheckStep]_vars

C26_PrefixStep ==
    NameChecked =>
        /\ ~IsPrefix(StoredName, Supplied) => run'.die # ""
        /\ run'.die = "" => run'.patch = run.patch

\* what holds instead: a name the stored name is no prefix of is rejected,
\* and the stored name is the one kept
C26_PrefixCrossCheck == [][C26_PrefixStep]_vars

\* apply_one_fragment on the files with several places for a hunk; a search
\* that can be made is made
SearchInit == InitSearch /\ run = NoRun

SearchNext == Begin \/ Locate \/ Apply \/ Reject

FairSpec == SearchInit /\ [][SearchNext]_vars /\ WF_vars(Locate)

\* what a retry makes smaller: the context lines left, twice, and one more
\* while an end-anchor flag is set
RetryMeasure(l) ==
    2 * (l.leading + l.trailing)
        + (IF l.match_beginning \/ l.match_end THEN 1 ELSE 0)

\* one call of find_pos and what apply_one_fragment makes of it: no line is
\* tried twice and no line outside the image, and the loop either ends,
\* with a line found or with failure, or goes on with less to retry
C29_LocateStep ==
    pc = "locate" =>
        /\ \A j, k \in 1..Len(st'.tried) : st'.tried[j] = st'.tried[k] => j = k
        /\ \A k \in 1..Len(st'.tried) : st'.tried[k] \in 0..nr(img)
        /\ st'.state \in {"locate", "found", "notfound"}
        /\ st'.state = "found" =>
              st'.applied_pos \in 0..nr(img) /\ pc' = "found"
        /\ st'.state = "notfound" => st'.applied_pos = -1 /\ pc' = "notfound"
        /\ st'.state = "locate" =>
              /\ st'.applied_pos = -1
              /\ RetryMeasure(st') < RetryMeasure(st)
              /\ \/ st.match_beginning \/ st.match_end
                 \/ st'.leading + st'.trailing < st.leading + st.trailing

\* C29: for every image, hunk and value of p_context the scan of find_pos
\* visits each line at most once per call, and the retry loop of
\* apply_one_fragment terminates: each retry either clears the end-anchor
\* flags or strictly decreases leading + trailing, and the loop ends with
\* an applied position or with failure.
C29_LocationTerminates ==
    /\ [][C29_LocateStep]_vars
    /\ (pc = "locate") ~> (pc \in {"found", "notfound"})

\* a hunk has been found on the third search: the first cleared the flags,
\* the second removed context
C29_FoundOnThirdSearch ==
    /\ pc = "found"
    /\ frags[fi].leading + frags[fi].trailing > st.leading + st.trailing
    /\ ~st.match_beginning /\ ~st.match_end
    /\ frags[fi].oldpos <= 1
    /\ Len(st.tried) > 1

\* the line a search is asked to start from: the line of the hunk, or the
\* end the flags force
ForcedLine ==
    IF st.match_beginning THEN 0
    ELSE IF st.match_end THEN nr(img) - nr(st.preimage)
    ELSE st.pos

\* that line clamped into 0..img.nr
ClampedLine ==
    IF ForcedLine < 0 THEN 0
    ELSE IF ForcedLine > nr(img) THEN nr(img) ELSE ForcedLine

\* that line as find_pos takes it: a line outside 0..img.nr, a negative one
\* included, is the line behind the last
StartLine == IF ForcedLine \in 0..nr(img) THEN ForcedLine ELSE nr(img)

Distance(p, q) == IF p >= q THEN p - q ELSE q - p

\* the lines at which the preimage, if it has its lines, is accepted
AcceptedLines ==
    IF st.preimage.wrapped \/ nr(st.preimage) > nr(img) THEN {}
    ELSE {p \in 0..(nr(img) - nr(st.preimage)) : MatchesAt(p)}

\* find_pos returns -1 exactly when no line is accepted, and else an
\* accepted line nearest to line a; it tries no line outside 0..img.nr
NearestTo(a) ==
    /\ st'.applied_pos = -1 <=> AcceptedLines = {}
    /\ st'.applied_pos # -1 =>
          /\ st'.applied_pos \in AcceptedLines
          /\ \A p \in AcceptedLines :
                Distance(st'.applied_pos, a) <= Distance(p, a)
    /\ \A k \in 1..Len(st'.tried) : st'.tried[k] \in 0..nr(img)

C30_ClampedStep == pc = "locate" => NearestTo(ClampedLine)

\* C30 as claimed: find_pos returns -1 if and only if no line P with
\* 0 <= P <= img.nr - preimage.nr is accepted by match_fragment under the
\* flags; otherwise it returns an accepted line whose distance from the
\* anchor is minimal among the accepted lines, the anchor being the
\* starting line after forcing and clamping into [0, img.nr]; every line
\* tried lies in [0, img.nr].
C30_NearestToClamped == [][C30_ClampedStep]_vars

C30_StartStep == pc = "locate" => NearestTo(StartLine)

\* C30 as the code has it: the same, the anchor being the forced line if it
\* lies in [0, img.nr] and img.nr if it does not: a negative line, which
\* the removal of leading context leaves, starts the search at the end of
\* the image, not at its beginning.
C30_NearestToStart == [][C30_StartStep]_vars

\* a hunk found at the last of the lines that match, the search having
\* started from line -1
C30_FoundFromTheEnd ==
    /\ pc = "found" /\ st.pos < 0
    /\ ~st.match_beginning /\ ~st.match_end
    /\ st.tried[1] = nr(img)
    /\ st.applied_pos > 0
    /\ HashesAgreeAt(0) /\ ExactAt(0)

(***************************************************************************)
(* Binary patches: apply_fragments on a patch with is_binary set.  An      *)
(* object name is modelled as the tagged content it names, so that two     *)
(* names are equal exactly when the contents are (no collisions); the      *)
(* object store is the set of contents it holds.  A sha1 prefix of a patch *)
(* is <<"sha1", content>>, <<"short", content>> when the index line is     *)
(* abbreviated, or null_sha1.  The data of a binary hunk is the content it *)
(* carries (result) and, for a delta, the content it was made from (base). *)
(***************************************************************************)
null_sha1 == <<"null">>

hash_sha1_file(buf) == <<"sha1", buf>>

\* patch_delta: NULL (here <<FALSE>>) unless the delta was made for this base
patch_delta(buf, delta) == IF delta.base = buf THEN <<TRUE, delta.result>> ELSE <<FALSE>>

\* reverse_patches on the head of a patch (lines 1513-1517)
reverse_patch(p) ==
    [p EXCEPT !.new_name = p.old_name, !.old_name = p.new_name,
              !.old_sha1_prefix = p.new_sha1_prefix,
              !.new_sha1_prefix = p.old_sha1_prefix]

\* lines 2125-2133 without the test of apply_in_reverse: the forward hunk
\* is used in either direction
binary_fragment_forward(patch, apply_in_reverse) == 1

\* lines 2125-2133: the fragment to apply, 0 when reverse mode finds none
binary_fragment(patch, apply_in_reverse) ==
    IF apply_in_reverse THEN (IF Len(patch.fragments) < 2 THEN 0 ELSE 2) ELSE 1

\* apply_binary_fragment: ret, the image buffer and the errors reported
apply_binary_fragment(buf, patch, apply_in_reverse) ==
    LET with(k) ==
            IF k = 0
            THEN [ret |-> -1, buf |-> buf, errors |-> <<"cannot reverse-apply">>]
            ELSE LET fragment == patch.fragments[k] IN
                 IF fragment.binary_patch_method = "BINARY_DELTA_DEFLATED"
                 THEN (IF patch_delta(buf, fragment.patch)[1]
                       THEN [ret |-> 0, buf |-> patch_delta(buf, fragment.patch)[2],
                             errors |-> <<>>]
                       ELSE [ret |-> -1, buf |-> buf, errors |-> <<>>])
                 ELSE [ret |-> 0, buf |-> fragment.patch.result, errors |-> <<>>]
    IN with(binary_fragment(patch, apply_in_reverse))

\* apply_binary: ret, the image buffer and the errors reported
apply_binary(buf, patch, store, apply_in_reverse) ==
    LET old == patch.old_sha1_prefix
        new == patch.new_sha1_prefix
        fail(e) == [ret |-> -1, buf |-> buf, errors |-> e]
        \* lines 2213-2221, f being what apply_binary_fragment returned
        after_fragment(f) ==
            IF f.ret # 0 THEN fail(f.errors \o <<"does not apply">>)
            ELSE IF hash_sha1_file(f.buf) # new
            THEN [ret |-> -1, buf |-> f.buf, errors |-> <<"incorrect result">>]
            ELSE [ret |-> 0, buf |-> f.buf, errors |-> <<>>]
    IN IF old[1] = "short" \/ new[1] = "short" THEN fail(<<"without full index line">>)
       ELSE IF patch.old_name # "" /\ hash_sha1_file(buf) # old
       THEN fail(<<"does not match the current contents">>)
       ELSE IF patch.old_name = "" /\ Len(buf) # 0 THEN fail(<<"not empty">>)
       ELSE IF new = null_sha1 THEN [ret |-> 0, buf |-> <<>>, errors |-> <<>>]
       ELSE IF new[2] \in store THEN [ret |-> 0, buf |-> new[2], errors |-> <<>>]
       ELSE after_fragment(apply_binary_fragment(buf, patch, apply_in_reverse))

\* binary patches as parse_binary leaves them: a forward hunk and, when
\* the diff was made reversible, a reverse hunk
BinaryPatches ==
    LET Blobs == {<<>>, Ln("a"), Ln("b")}
        name(b) == IF b = <<>> THEN null_sha1 ELSE hash_sha1_file(b)
        hunk(method, from, to) ==
            [binary_patch_method |-> method,
             patch |-> [base |-> IF method = "BINARY_DELTA_DEFLATED" THEN from
                                 ELSE <<>>,
                        result |-> to]]
        made(pre, post, full, reversible, method) ==
            [old_name |-> IF pre = <<>> THEN "" ELSE "A",
             new_name |-> IF post = <<>> THEN "" ELSE "A",
             old_sha1_prefix |-> IF full THEN name(pre) ELSE <<"short", pre>>,
             new_sha1_prefix |-> name(post),
             is_binary |-> TRUE,
             fragments |-> IF reversible
                           THEN <<hunk(method, pre, post), hunk(method, post, pre)>>
                           ELSE <<hunk(method, pre, post)>>]
    IN {made(c[1], c[2], full, reversible, method) :
            c \in {d \in Blobs \X Blobs : d[1] # d[2]}, full \in BOOLEAN,
            reversible \in BOOLEAN,
            method \in {"BINARY_DELTA_DEFLATED", "BINARY_LITERAL_DEFLATED"}}

\* a binary patch read from the input, the file it names and the object
\* store, with or without -R
BinaryInit ==
    /\ \E patch \in BinaryPatches, buf \in {<<>>, Ln("a"), Ln("b")},
          store \in SUBSET {Ln("a"), Ln("b")} :
          run = [state |-> "parsed", patch |-> patch, buf |-> buf, buf0 |-> buf,
                 store |-> store, ret |-> 0, errors |-> <<>>]
    /\ \E reverse \in BOOLEAN : glob = [DefaultGlob EXCEPT !.apply_in_reverse = reverse]
    /\ img = EmptyImage
    /\ frags = <<>>
    /\ fi = 1
    /\ pc = "run"
    /\ st = NoLocals
    /\ hist = [kind |-> "binary"]

\* apply_patch, lines 3139-3140
ReversePatches ==
    /\ run.state = "parsed"
    /\ run' = [run EXCEPT !.state = "listed",
                          !.patch = IF glob.apply_in_reverse THEN reverse_patch(@) ELSE @]
    /\ UNCHANGED <<glob, img, frags, fi, pc, st, hist>>

\* apply_fragments, lines 2237-2238
ApplyBinary ==
    /\ run.state = "listed"
    /\ LET applied(r) == [run EXCEPT !.state = "applied", !.ret = r.ret,
                                     !.buf = r.buf, !.errors = r.errors]
       IN run' = applied(apply_binary(run.buf, run.patch, run.store,
                                      glob.apply_in_reverse))
    /\ UNCHANGED <<glob, img, frags, fi, pc, st, hist>>

BinaryNext == ReversePatches \/ ApplyBinary

BinarySpec == BinaryInit /\ [][BinaryNext]_vars

\* a patch applied in reverse that carries no reverse hunk
ForwardOnlyReversed ==
    /\ run.state = "applied"
    /\ glob.apply_in_reverse
    /\ Len(run.patch.fragments) = 1

\* apply_binary comes to apply_binary_fragment: the index line is full, the
\* file is what the patch applies to, the result is no deletion and the
\* object store does not hold it
NeedsHunk ==
    /\ run.patch.old_sha1_prefix[1] # "short"
    /\ run.patch.new_sha1_prefix[1] # "short"
    /\ IF run.patch.old_name # "" THEN hash_sha1_file(run.buf0) = run.patch.old_sha1_prefix
                                  ELSE run.buf0 = <<>>
    /\ run.patch.new_sha1_prefix # null_sha1
    /\ run.patch.new_sha1_prefix[2] \notin run.store

\* C12 as claimed: in reverse mode a binary patch that carries only a
\* forward hunk always fails with the "cannot reverse-apply" error, whatever
\* the object store holds and whatever the file is.
C12_ReverseAlwaysFails ==
    ForwardOnlyReversed => (run.ret # 0 /\ run.errors[1] = "cannot reverse-apply")

\* C12 as the code has it: in reverse mode a binary patch that carries only
\* a forward hunk fails with the "cannot reverse-apply" error, leaving the
\* image alone, exactly when apply_binary comes to apply its hunk; when the
\* result is a deletion or an object the store holds it succeeds without
\* any hunk, and otherwise it fails with another error.
C12_ReverseNeedsHunk ==
    ForwardOnlyReversed =>
        /\ NeedsHunk <=> (run.errors # <<>> /\ run.errors[1] = "cannot reverse-apply")
        /\ NeedsHunk => (run.ret = -1 /\ run.buf = run.buf0)
        /\ run.ret = 0 =>
               \/ run.patch.new_sha1_prefix = null_sha1 /\ run.buf = <<>>
               \/ run.buf \in run.store /\ hash_sha1_file(run.buf) = run.patch.new_sha1_prefix

\* the forward hunk alone, in reverse mode, on the file it would produce,
\* with the result missing from the object store: the error
C12_ReverseRefused ==
    /\ ForwardOnlyReversed /\ NeedsHunk
    /\ run.errors = <<"cannot reverse-apply", "does not apply">>
    /\ run.buf0 = Ln("b") /\ run.patch.new_sha1_prefix = hash_sha1_file(Ln("a"))

(***************************************************************************)
(* The path state table, stated on the CheckPatch step: run is the state   *)
(* check_patch is called in, run' the state it leaves.                     *)
(***************************************************************************)
\* the patch check_patch is called on, before and after
Checked == run.list[run.k]

CheckedAfter == run'.list[run.k]

\* the table maps the old name of the patch to a prior patch's result
OldNamePatched ==
    Checked.old_name # "" /\ in_fn_table(run.fn_table, Checked.old_name) > 0

\* C14 as claimed: for every patch whose old_path is present, rename and
\* copy patches included, if the table maps old_path to a prior patch of the
\* input when the patch is applied, the hunks are applied to that patch's
\* result; the index or the working tree file is read only when the table
\* holds no prior result for old_path.
C14_PriorityStep ==
    (run.state = "check" /\ CheckedAfter.src # "unset") =>
        IF OldNamePatched
        THEN /\ CheckedAfter.src = "memory"
             /\ CheckedAfter.preimage
                    = run.list[in_fn_table(run.fn_table, Checked.old_name)].result
        ELSE CheckedAfter.src # "memory"

C14_MemoryFirstForAll == [][C14_PriorityStep]_vars

\* C14 as the code has it: the same, for the patches that are neither a
\* rename nor a copy; a rename or a copy never takes a prior result: its
\* hunks are applied to the index entry (--cached) or to the working tree
\* file of old_path, whatever the table holds.
C14_SourceStep ==
    (run.state = "check" /\ CheckedAfter.src # "unset") =>
        IF Checked.is_rename \/ Checked.is_copy
        THEN /\ CheckedAfter.src = IF run.o.cached THEN "index" ELSE "disk"
             /\ CheckedAfter.preimage
                    = IF run.o.cached THEN run.cache[Checked.old_name].data
                      ELSE run'.wt[Checked.old_name].data
        ELSE C14_PriorityStep

C14_PreimageSource == [][C14_SourceStep]_vars

\* both cases have happened: a copy of A applied to the file on disk after
\* a patch to A had left another result in memory
C14_CopyReadDisk ==
    /\ Exited /\ run.status = 0 /\ Len(run.list) = 2
    /\ run.list[2].is_copy /\ run.list[2].src = "disk"
    /\ run.list[1].new_name = run.list[2].old_name
    /\ run.list[1].src = "disk" /\ run.list[1].rejected = 0
    /\ run.list[2].preimage # run.list[1].result
    /\ run.list[2].preimage = run.wt0["A"].data

\* whether a patch takes its old name away: a rename, or no new name
TakesAway(patch) == patch.is_rename \/ patch.new_name = ""

\* what the table has to be once patch, the k-th of the list, is applied
TableWith(fn, patch, k) ==
    [q \in Paths |->
        IF TakesAway(patch) /\ q = patch.old_name THEN PATH_WAS_DELETED
        ELSE IF q = patch.new_name THEN k
        ELSE fn[q]]

\* C15, the prepare step: whatever the table held for the input before, once
\* an input is parsed and prepared the table maps the old_path of every
\* patch that is a rename or has no new_path to ToBeDeleted, and no other
\* path to anything; an input that is neither checked nor applied leaves
\* the table empty.
C15_PrepareStep ==
    run.state = "input" /\ run'.state # "exit" =>
        run'.fn_table
            = [q \in Paths |->
                  IF /\ run'.state = "check"
                     /\ \E i \in 1..Len(run'.list) :
                           TakesAway(run'.list[i]) /\ run'.list[i].old_name = q
                  THEN PATH_TO_BE_DELETED ELSE 0]

\* C15, the patches: a patch that is applied in memory leaves new_path
\* mapped to itself and, if it is a rename or a delete, old_path mapped to
\* WasDeleted; check_patch changes the table in no other way.
C15_PatchStep ==
    run.state = "check" =>
        /\ CheckedAfter.rejected = 0 =>
              run'.fn_table = TableWith(run.fn_table, CheckedAfter, run.k)
        /\ \/ run'.fn_table = run.fn_table
           \/ run'.fn_table = TableWith(run.fn_table, CheckedAfter, run.k)

\* C15, the other steps: the options, writing out and the end of the run
\* leave the table alone.
C15_OtherStep ==
    run.state \notin {"input", "check"} \/ run'.state = "exit" =>
        \/ run'.fn_table = run.fn_table
        \/ run.state = "check"

\* C15: the transitions of the path state table.
C15_TableTransitions ==
    [][C15_PrepareStep /\ C15_PatchStep /\ C15_OtherStep]_vars

\* a rename has been applied after the table was prepared for it: its old
\* name went from ToBeDeleted to WasDeleted and its new name maps to it
C15_RenameRecorded ==
    /\ run.state = "check" /\ run.k = 2
    /\ run.list[1].is_rename /\ run.list[1].rejected = 0
    /\ run.fn_table[run.list[1].old_name] = PATH_WAS_DELETED
    /\ run.fn_table[run.list[1].new_name] = 1
    /\ run.inp = 2

\* the patch creates its new name: a new file, or the destination of a
\* rename or of a copy
Creates(patch) ==
    patch.new_name # "" /\ (patch.is_new > 0 \/ patch.is_rename \/ patch.is_copy)

\* the table marks the new name of the patch ToBeDeleted or WasDeleted
NewNameMarked ==
    in_fn_table(run.fn_table, Checked.new_name)
        \in {PATH_TO_BE_DELETED, PATH_WAS_DELETED}

\* check_patch has refused the patch with 'already exists'
AlreadyExists ==
    CheckedAfter.error
        \in {"already exists in index", "already exists in working directory"}

\* check_preimage has let the patch through
PreimageFound ==
    CheckedAfter.error
        \notin {"has been deleted/renamed", "does not exist in index",
                "does not match index", "No such file or directory", "wrong type"}

\* the new name exists where the run looks for it: in the index under
\* --index or --cached, in the working tree unless --cached
NewNameInIndex == run.o.check_index /\ run.cache[Checked.new_name].exists

NewNameInTree == ~run.o.cached /\ run'.wt[Checked.new_name].exists

\* C16 as claimed: a patch that creates its new_path is not refused with
\* 'already exists' when the table maps new_path to ToBeDeleted or
\* WasDeleted, and is refused with it when the path exists and the table has
\* no such mark.
C16_CreateStep ==
    (run.state = "check" /\ Creates(CheckedAfter) /\ PreimageFound) =>
        IF NewNameMarked THEN ~AlreadyExists
        ELSE (NewNameInIndex \/ NewNameInTree) => AlreadyExists

C16_RefusedWhenExists == [][C16_CreateStep]_vars

\* C16 as the code has it: the same, a directory in the working tree at
\* new_path not counting as the path existing: the patch is refused when
\* the path is in the index, or is in the working tree and is no directory.
C16_CreateOverStep ==
    (run.state = "check" /\ Creates(CheckedAfter) /\ PreimageFound) =>
        AlreadyExists
            = /\ ~NewNameMarked
              /\ \/ NewNameInIndex
                 \/ NewNameInTree /\ ~run'.wt[Checked.new_name].dir

C16_CreateOverMarked == [][C16_CreateOverStep]_vars

\* a file has been created over a path that an earlier patch of the input
\* deleted, the path being in the working tree and in the index all along
C16_CreatedOverDeleted ==
    /\ run.state = "write" /\ Len(run.list) = 2 /\ run.o.check_index
    /\ run.list[1].is_delete > 0 /\ run.list[1].rejected = 0
    /\ run.list[2].is_new > 0 /\ run.list[2].rejected = 0
    /\ run.list[2].new_name = run.list[1].old_name
    /\ run.wt[run.list[2].new_name].exists
    /\ run.cache[run.list[2].new_name].exists

\* the table says an earlier patch of the input took the old name of the
\* patch away, and no later one has created it again
OldNameWasDeleted ==
    Checked.old_name # ""
        /\ in_fn_table(run.fn_table, Checked.old_name) = PATH_WAS_DELETED

\* check_patch has failed the patch with 'has been deleted/renamed' and
\* left no result of it, neither in the patch nor in the table
FailedAsDeleted ==
    /\ CheckedAfter.error = "has been deleted/renamed"
    /\ CheckedAfter.rejected # 0
    /\ CheckedAfter.result = <<>> /\ CheckedAfter.src = "unset"
    /\ run'.fn_table = run.fn_table
    /\ run'.err < 0

\* C17 as claimed: once an earlier patch of the input has deleted or renamed
\* away a path, every later patch whose old_path is that path fails with
\* 'has been deleted/renamed' and produces no result, until some patch
\* creates the path again.
C17_DeletedStep ==
    (run.state = "check" /\ OldNameWasDeleted) => FailedAsDeleted

C17_EveryLaterPatchFails == [][C17_DeletedStep]_vars

\* C17 as the code has it: so fails every later patch that is neither a
\* rename nor a copy; a rename or a copy of the path is never failed with
\* 'has been deleted/renamed', and no patch is while the table does not
\* hold WasDeleted for its old_path.
C17_DeletedPathStep ==
    run.state = "check" =>
        IF OldNameWasDeleted /\ ~(Checked.is_rename \/ Checked.is_copy)
        THEN FailedAsDeleted
        ELSE CheckedAfter.error
                \notin {"has been deleted/renamed", "has been renamed/deleted"}

C17_PatchOfDeletedFails == [][C17_DeletedPathStep]_vars

\* a patch to a path that the patch before it renamed away has failed, and
\* the run with it
C17_FailedAfterRename ==
    /\ Exited /\ run.status = 1 /\ Len(run.list) = 2
    /\ run.list[1].is_rename /\ run.list[1].rejected = 0
    /\ run.list[2].old_name = run.list[1].old_name
    /\ run.list[2].error = "has been deleted/renamed"
    /\ run.fn_table[run.list[2].old_name] = PATH_WAS_DELETED
    /\ run.wt = run.wt0

\* write_out_results has returned for an input all patches of which applied
WrittenOut ==
    /\ run.state = "write" /\ run'.state # "write"
    /\ run'.cause # "die"
    /\ ~run.o.cached
    /\ \A k \in 1..Len(run.list) : run.list[k].rejected = 0

\* the working tree has what the table says of path q
AgreesWithTable(r, q) ==
    /\ r.fn_table[q] \in 1..Len(r.list) =>
          /\ r.wt[q].exists /\ ~r.wt[q].dir
          /\ r.wt[q].data = r.list[r.fn_table[q]].result
    /\ r.fn_table[q] = PATH_WAS_DELETED => ~r.wt[q].exists

C27_WrittenStep == WrittenOut => \A q \in Paths : AgreesWithTable(run', q)

\* C27: for every input in which all patches apply, after write_out_results
\* the working tree agrees with the final path table on every path the
\* input touches: a path mapped to a patch exists with the result of that
\* patch, a path marked as deleted does not exist; in every order of the
\* patches.
C27_WrittenAgreesWithTable == [][C27_WrittenStep]_vars

C28_FailedStep ==
    (run.state = "check" /\ CheckedAfter.rejected # 0) =>
        run'.fn_table = run.fn_table

\* C28: whenever check_patch reports a patch as failed (patch.rejected stays
\* 1 and the patch is skipped at write-out), the path table is exactly as
\* it was before that patch was checked; a declared deletion that fails
\* with "removal patch leaves file contents" included.
C28_FailedPatchKeepsTable == [][C28_FailedStep]_vars

C28_OtherFailureStep ==
    (/\ run.state = "check" /\ CheckedAfter.rejected # 0
     /\ CheckedAfter.error # "removal patch leaves file contents") =>
        run'.fn_table = run.fn_table

\* what holds instead: a patch that fails for any other reason leaves the
\* table as it was
C28_OtherFailuresKeepTable == [][C28_OtherFailureStep]_vars

(***************************************************************************)
(* Whitespace errors under --whitespace=error.                             *)
(***************************************************************************)
WsErrorSeen == run.o.ws_error_action = die_on_ws_error /\ run.o.whitespace_error # 0

\* C11 as claimed: when a run given --whitespace=error (and neither --check
\* nor --cached) ends on the whitespace errors of a last input whose patches
\* all apply to the files they name, those patches were checked and their
\* postimages are in the working tree.
C11_WsErrorDeferred ==
    (Exited /\ run.cause = "whitespace" /\ WritesTree /\ run.list = WsList
        /\ run.wt0["A"] = File(FA) /\ Len(run.inputs) = 1) =>
        /\ run.list[1].rejected = 0
        /\ run.wt["A"] = File(<<"x", SP, NL>> \o Ln("b"))

\* C11 as the code has it: once an input parsed under --whitespace=error
\* has added a whitespace violation, apply is off: no patch of that input or
\* of a later one is written out, the index is not committed, and the run
\* ends with a non-zero status: 128 when it dies on the whitespace errors
\* after its last input, 1 when a check failed before.
C11_WsErrorState ==
    WsErrorSeen =>
        /\ ~run.o.apply
        /\ run.state # "write"
        /\ run.lock # "committed"
        /\ run.index_file = run.index0
        /\ (Exited => \/ (run.status = 128 /\ run.cause = "whitespace")
                       \/ (run.status = 1 /\ run.cause = "check"))

C11_WsErrorStep == WsErrorSeen' => run.calls' = run.calls

C11_WsErrorStopsApply == [] C11_WsErrorState /\ [][C11_WsErrorStep]_vars

\* the run of C11's case: the patch applies to A, and the run has died on
\* its whitespace error with A as it was
C11_WsErrorDied ==
    /\ Exited /\ run.cause = "whitespace" /\ run.status = 128
    /\ WritesTree /\ run.list = WsList /\ Len(run.inputs) = 1
    /\ run.wt0["A"] = File(FA)
    /\ run.wt = run.wt0 /\ run.calls = <<>>

====
